---------------------------- MODULE Spec2Model ----------------------------
(***************************************************************************)
(* Model of the hex dump viewer.  Six specifications share the            *)
(* variables and the formatter:                                            *)
(*   Spec        the line formatter generateHexLine / generateCharLine and *)
(*               the four byte-to-character decoders of src/hexdump.go,    *)
(*               driven by calls on a loaded buffer;                       *)
(*   SpecApp     the handlers of src/hexdump.go: loading, the selectors,   *)
(*               virtual scrolling with the per-line caches;               *)
(*   SpecSync    the two OnScrolled callbacks of src/hexdump.go statement  *)
(*               by statement, with the calls the toolkit makes back;      *)
(*   SpecLoader  the progressive loader of src/unnamed/part_000 (second    *)
(*               file): chunked loading, the Load More button, and the     *)
(*               goroutine checkAutoLoad starts;                           *)
(*   SpecLoading the progressive loader on one file whose reads succeed,   *)
(*               with weak fairness of the calls of loadNextChunk;         *)
(*   SpecList    the rows of the list view of src/unnamed/part_001.        *)
(*                                                                         *)
(* A Go string is modelled as the sequence of its code points (runes):     *)
(* "Hello" is <<72, 101, 108, 108, 111>>, "." is <<46>>, " " is <<32>>,    *)
(* the line terminator "\n" is <<10>>.  Every string the hex formatter     *)
(* builds is ASCII, so its rune count is its byte length.                  *)
(***************************************************************************)
EXTENDS Integers, Sequences, FiniteSets, TLC

VARIABLES
    fileData,       \* h.fileData: the loaded bytes, a sequence over 0..255
    bytesPerGroup,  \* h.bytesPerGroup
    encoding,       \* h.encoding
    bytesPerLine,   \* h.bytesPerLine
    op,             \* the formatting function that was called last
    arg,            \* its argument: the offset of the line
    ret,            \* what it returned: [panicked, text]
    fileName,       \* h.fileName
    hexDisplay,     \* the text of the h.hexDisplay widget
    charDisplay,    \* the text of the h.charDisplay widget
    statusLabel,    \* the text of the h.statusLabel widget
    errorDialog,    \* the error dialog.ShowError has put up over the window,
                    \* "none" when there is none
    visibleLines,   \* h.visibleLines
    currentTopLine, \* h.currentTopLine
    totalLines,     \* h.totalLines
    lineHeight,     \* h.lineHeight
    cachedHexLines, \* h.cachedHexLines: line number -> hex line
    cachedCharLines,\* h.cachedCharLines: line number -> character line
    syncing,        \* the flag of synchronizeScrolling
    hexOffset,      \* hexScroll.Offset.Y
    charOffset,     \* charScroll.Offset.Y
    callbacks,      \* the OnScrolled callbacks under way, innermost first,
                    \* each with its pane, its position and where it stands
    file,           \* h.file of the progressive loader: the open file, or Nil
    fileSize,       \* h.fileSize
    loadedBytes,    \* h.loadedBytes
    chunkSize,      \* h.chunkSize
    isLoading,      \* h.isLoading
    loadMoreBtn,    \* the h.loadMoreBtn widget: [shown, text, enabled]
    progressLabel,  \* the h.progressLabel widget: [shown, text]
    goroutines,     \* the goroutines checkAutoLoad started that have not
                    \* returned yet, each at its position in loadNextChunk
    thread          \* the thread that ran the last step: "ui" or "goroutine"

\* the buffer and the line settings
settings == <<fileData, bytesPerGroup, encoding, bytesPerLine>>

\* the widgets of both displays and of the status bar
widgets == <<hexDisplay, charDisplay, statusLabel, errorDialog>>

\* the state of virtual scrolling
scrolling == <<visibleLines, currentTopLine, totalLines, lineHeight,
               cachedHexLines, cachedCharLines, syncing>>

\* the state of progressive loading
loader == <<file, fileSize, loadedBytes, chunkSize, isLoading, loadMoreBtn,
            progressLabel, goroutines, thread>>

\* the two scroll containers
panes == <<hexOffset, charOffset, callbacks>>

vars == <<settings, op, arg, ret, fileName, widgets, scrolling, loader, panes>>

----------------------------------------------------------------------------
(* Bounds of the model. *)

\* longest buffer of pattern bytes
MaxLen == 18

\* longest run of filler bytes in front of the payload of a buffer
MaxPad == 16

\* longest payload drawn byte by byte from the encoding's alphabet
MaxPayload == 2

\* how far beyond len(fileData) an offset handed to a formatter may lie
MaxOver == 2

----------------------------------------------------------------------------
(* Helpers for Go's integer and string primitives. *)

Min(a, b) == IF a < b THEN a ELSE b

\* Go's integer division truncates towards zero
GoDiv(a, b) == IF a >= 0 THEN a \div b ELSE -((-a) \div b)

\* strings.Repeat(" ", n); a count <= 0 writes nothing (a for loop that
\* does not run)
Spaces(n) == [i \in 1..(IF n > 0 THEN n ELSE 0) |-> 32]

\* mutant of HexDigit: %x instead of %X, lowercase digits
M_HexDigit(d) == IF d < 10 THEN 48 + d ELSE 87 + d

\* one uppercase hexadecimal digit, as %X prints it
HexDigit(d) == IF d < 10 THEN 48 + d ELSE 55 + d

RECURSIVE HexDigits(_)
\* the digits of n >= 0 in base 16, most significant first, no padding
HexDigits(n) ==
    IF n < 16 THEN <<HexDigit(n)>>
    ELSE HexDigits(n \div 16) \o <<HexDigit(n % 16)>>

\* fmt.Sprintf("%0wX", n) for n >= 0: zero-padded to at least w digits
SprintfX(w, n) ==
    LET d == HexDigits(n)
    IN [i \in 1..(IF Len(d) < w THEN w - Len(d) ELSE 0) |-> 48] \o d

\* data[lo:hi] with Go's 0-based half-open bounds
SliceOf(data, lo, hi) == [i \in 1..(hi - lo) |-> data[lo + i]]

\* h.fileData[i] with Go's 0-based index
ByteAt(i) == fileData[i + 1]

\* h.fileData[lo:hi]
Slice(lo, hi) == SliceOf(fileData, lo, hi)

----------------------------------------------------------------------------
(* generateHexLine, src/hexdump.go:397-447 *)

RECURSIVE M_HexBytesOfGroup(_, _, _)
\* mutant of HexBytesOfGroup: the bytes of a group written as one
\* little-endian word, last byte first
M_HexBytesOfGroup(data, byteIndex, groupEnd) ==
    IF byteIndex >= groupEnd THEN <<>>
    ELSE M_HexBytesOfGroup(data, byteIndex + 1, groupEnd)
         \o SprintfX(2, data[byteIndex + 1])

RECURSIVE HexBytesOfGroup(_, _, _)
\* the inner loop over the buffer data: the bytes index..groupEnd-1 as %02X
\* pairs, no separator
HexBytesOfGroup(data, byteIndex, groupEnd) ==
    IF byteIndex >= groupEnd THEN <<>>
    ELSE SprintfX(2, data[byteIndex + 1])
         \o HexBytesOfGroup(data, byteIndex + 1, groupEnd)

\* mutant of GroupSeparator: a space after the last group too
M_GroupSeparator(groupEnd, lineEnd) ==
    IF groupEnd <= lineEnd THEN <<32>> ELSE <<>>

\* the separator written after a group: a space, except after the last
\* group on the line
GroupSeparator(groupEnd, lineEnd) ==
    IF groupEnd < lineEnd THEN <<32>> ELSE <<>>

RECURSIVE HexGroups(_, _, _, _)
\* the outer loop over the buffer data, for a grouping of g bytes:
\* for index := offset; index < lineEnd; index += bytesPerGroup
HexGroups(data, g, index, lineEnd) ==
    IF index >= lineEnd THEN <<>>
    ELSE LET groupEnd == Min(index + g, lineEnd)
         IN HexBytesOfGroup(data, index, groupEnd)
            \o GroupSeparator(groupEnd, lineEnd)
            \o HexGroups(data, g, index + g, lineEnd)

\* mutant of MissingGroups: the groups on the line rounded down, so that a
\* short last group is not counted
M_MissingGroups(g, bytesOnLine) ==
    LET groupsOnLine == GoDiv(bytesOnLine, g)
        totalGroups  == GoDiv(bytesPerLine + g - 1, g)
    IN totalGroups - groupsOnLine

\* the number of separator spaces written for the groups that are missing
MissingGroups(g, bytesOnLine) ==
    LET groupsOnLine == GoDiv(bytesOnLine + g - 1, g)
        totalGroups  == GoDiv(bytesPerLine + g - 1, g)
    IN totalGroups - groupsOnLine

\* mutant of HexPadding: the missing bytes are padded, the missing group
\* separators are not
M_HexPadding(g, bytesOnLine) ==
    IF bytesOnLine < bytesPerLine
    THEN Spaces(2 * (bytesPerLine - bytesOnLine))
    ELSE <<>>

\* "Pad line if necessary": two spaces per missing byte, then one per
\* missing group
HexPadding(g, bytesOnLine) ==
    IF bytesOnLine < bytesPerLine
    THEN Spaces(2 * (bytesPerLine - bytesOnLine)) \o Spaces(MissingGroups(g, bytesOnLine))
    ELSE <<>>

\* mutant of LineEndOf: the line takes in the first byte of the next line
M_LineEndOf(data, offset) == Min(offset + bytesPerLine + 1, Len(data))

\* lineEnd := offset + bytesPerLine, clamped to the length of the buffer
LineEndOf(data, offset) == Min(offset + bytesPerLine, Len(data))

\* the body of generateHexLine with h.fileData = data, h.bytesPerGroup = g
HexLineOf(data, g, offset) ==
    LET lineEnd == LineEndOf(data, offset)
    IN SprintfX(8, offset) \o <<58, 32>>
       \o HexGroups(data, g, offset, lineEnd)
       \o HexPadding(g, lineEnd - offset)
       \o <<10>>

\* lineEnd on h.fileData
LineEnd(offset) == LineEndOf(fileData, offset)

\* the body of generateHexLine on h.fileData with h.bytesPerGroup = g
HexLine(g, offset) == HexLineOf(fileData, g, offset)

\* a formatter whose strings.Builder is kept from the call before
M_generateHexLine(offset) == ret.text \o HexLine(bytesPerGroup, offset)

generateHexLine(offset) == HexLine(bytesPerGroup, offset)

----------------------------------------------------------------------------
(* unicode.IsPrint, called at src/hexdump.go:562, 592, 617.                *)
(* Letters, marks, numbers, punctuation, symbols and the ASCII space are   *)
(* printable.  The Latin-1 range is reproduced exactly; above it the       *)
(* table lists the non-printable code points of the blocks that the input  *)
(* alphabets below can decode to (every other code point those alphabets   *)
(* reach is an assigned graphic character).                                *)

NonPrintRanges ==
    { <<8192, 8207>>,     \* U+2000..U+200F spaces and format characters
      <<8232, 8239>>,     \* U+2028..U+202F separators, format, narrow space
      <<8287, 8303>>,     \* U+205F..U+206F space and format characters
      <<12288, 12288>>,   \* U+3000 ideographic space
      <<55296, 57343>>,   \* U+D800..U+DFFF surrogates
      <<57344, 63743>>,   \* U+E000..U+F8FF private use
      <<64976, 65007>>,   \* U+FDD0..U+FDEF noncharacters
      <<65279, 65279>>,   \* U+FEFF byte order mark (format)
      <<65520, 65531>>,   \* U+FFF0..U+FFFB unassigned and format
      <<65534, 65535>> }  \* U+FFFE, U+FFFF noncharacters

IsPrint(r) ==
    IF r <= 255
    THEN (32 <= r /\ r <= 126) \/ (161 <= r /\ r <= 255 /\ r # 173)
    ELSE /\ r <= 1114111
         /\ \A rg \in NonPrintRanges : r < rg[1] \/ r > rg[2]

\* "if printable write the rune, else write a dot"
PrintOrDot(r) == IF IsPrint(r) THEN r ELSE 46

----------------------------------------------------------------------------
(* bytesToLatin1, src/hexdump.go:535-550 *)

\* mutant of Latin1Char: the bounds of the two printable ranges off by one
M_Latin1Char(b) ==
    IF b >= 32 /\ b <= 127 THEN b
    ELSE IF b > 160 /\ b <= 255 THEN b
    ELSE 46

\* the character written for one byte
Latin1Char(b) ==
    IF b >= 32 /\ b <= 126 THEN b          \* builder.WriteByte(b)
    ELSE IF b >= 160 /\ b <= 255 THEN b    \* builder.WriteRune(rune(b))
    ELSE 46                                \* builder.WriteString(".")

bytesToLatin1(data) == [i \in 1..Len(data) |-> Latin1Char(data[i])]

----------------------------------------------------------------------------
(* utf8.DecodeRune, called at src/hexdump.go:556: the first code point of  *)
(* p and its width in bytes; (RuneError, 1) for an invalid or truncated    *)
(* encoding, (RuneError, 0) for an empty slice.                            *)

RuneError == 65533

\* a continuation byte 10xxxxxx
IsCont(b) == 128 <= b /\ b <= 191

\* the range accepted for the second byte after the lead byte p0
AcceptLo(p0) == IF p0 = 224 THEN 160 ELSE IF p0 = 240 THEN 144 ELSE 128
AcceptHi(p0) == IF p0 = 237 THEN 159 ELSE IF p0 = 244 THEN 143 ELSE 191

\* the width announced by the lead byte p0, 0 for a byte that cannot lead
LeadSize(p0) ==
    IF p0 < 128 THEN 1
    ELSE IF 194 <= p0 /\ p0 <= 223 THEN 2
    ELSE IF 224 <= p0 /\ p0 <= 239 THEN 3
    ELSE IF 240 <= p0 /\ p0 <= 244 THEN 4
    ELSE 0

DecodeRune(p) ==
    IF Len(p) = 0 THEN [r |-> RuneError, size |-> 0]
    ELSE
    LET p0 == p[1]
        sz == LeadSize(p0)
        bad == [r |-> RuneError, size |-> 1]
    IN IF sz = 1 THEN [r |-> p0, size |-> 1]
       ELSE IF sz = 0 \/ Len(p) < sz THEN bad
       ELSE IF p[2] < AcceptLo(p0) \/ p[2] > AcceptHi(p0) THEN bad
       ELSE IF sz = 2 THEN [r |-> (p0 % 32) * 64 + (p[2] % 64), size |-> 2]
       ELSE IF ~IsCont(p[3]) THEN bad
       ELSE IF sz = 3
            THEN [r |-> (p0 % 16) * 4096 + (p[2] % 64) * 64 + (p[3] % 64), size |-> 3]
       ELSE IF ~IsCont(p[4]) THEN bad
       ELSE [r |-> (p0 % 8) * 262144 + (p[2] % 64) * 4096 + (p[3] % 64) * 64 + (p[4] % 64),
             size |-> 4]

----------------------------------------------------------------------------
(* bytesToUTF8, src/hexdump.go:553-571 *)

\* mutant of UTF8Step: the test for an invalid sequence forgets size == 1,
\* so a well-formed U+FFFD counts as invalid
M_UTF8Step(data) ==
    LET d == DecodeRune(data)
    IN IF d.r = RuneError
       THEN [r |-> d.r, valid |-> FALSE, out |-> 46, adv |-> 1]
       ELSE [r |-> d.r, valid |-> TRUE, out |-> PrintOrDot(d.r), adv |-> d.size]

\* one iteration of the loop on the remaining bytes: what is written and
\* how many bytes are dropped from the front of data
UTF8Step(data) ==
    LET d == DecodeRune(data)
    IN IF d.r = RuneError /\ d.size = 1
       THEN [r |-> d.r, valid |-> FALSE, out |-> 46, adv |-> 1]
       ELSE [r |-> d.r, valid |-> TRUE, out |-> PrintOrDot(d.r), adv |-> d.size]

RECURSIVE UTF8Steps(_, _)
\* the iterations of "for len(data) > 0", each with the position it reads at
UTF8Steps(data, pos) ==
    IF pos >= Len(data) THEN <<>>
    ELSE LET st == UTF8Step(SubSeq(data, pos + 1, Len(data)))
         IN <<[pos |-> pos, r |-> st.r, valid |-> st.valid, out |-> st.out, adv |-> st.adv]>>
            \o UTF8Steps(data, pos + st.adv)

bytesToUTF8(data) ==
    LET steps == UTF8Steps(data, 0)
    IN [i \in 1..Len(steps) |-> steps[i].out]

----------------------------------------------------------------------------
(* bytesToUTF16LE, src/hexdump.go:574-599 *)

\* mutant of CodeUnit: the bytes taken in big-endian order
M_CodeUnit(low, high) == low * 256 + high

\* codeUnit := low | (high << 8)
CodeUnit(low, high) == low + high * 256

\* utf16.Decode([]uint16{codeUnit})[0]: a unit that stands alone is its own
\* code point, unless it is a surrogate half, which decodes to U+FFFD
Utf16Decode1(codeUnit) ==
    IF 55296 <= codeUnit /\ codeUnit <= 57343 THEN RuneError ELSE codeUnit

RECURSIVE UTF16Loop(_, _)
\* for index := 0; index < len(data); index += 2
UTF16Loop(data, index) ==
    IF index >= Len(data) THEN <<>>
    ELSE IF index + 1 >= Len(data) THEN <<46>>     \* odd number of bytes: dot, break
    ELSE <<PrintOrDot(Utf16Decode1(CodeUnit(data[index + 1], data[index + 2])))>>
         \o UTF16Loop(data, index + 2)

bytesToUTF16LE(data) == UTF16Loop(data, 0)

----------------------------------------------------------------------------
(* simplifiedchinese.GB18030.NewDecoder() run by transform.Bytes, called   *)
(* at src/hexdump.go:603-604.  The decoder never reports malformed input:  *)
(* a byte that cannot be transcoded is replaced by U+FFFD and decoding     *)
(* goes on with the next byte, so err stays nil.                           *)

\* the two-byte table, for the lead and trail bytes of the input alphabet
GbkTable(c0, c1) ==
    CASE c0 = 161 /\ c1 = 161 -> 12288    \* A1A1 U+3000 ideographic space
      [] c0 = 161 /\ c1 = 176 -> 8220     \* A1B0 U+201C left double quotation mark
      [] c0 = 161 /\ c1 = 194 -> 247      \* A1C2 U+00F7 division sign
      [] c0 = 176 /\ c1 = 161 -> 21834    \* B0A1 U+554A
      [] c0 = 176 /\ c1 = 176 -> 38797    \* B0B0 U+978D
      [] c0 = 176 /\ c1 = 194 -> 22885    \* B0C2 U+5965
      [] c0 = 194 /\ c1 = 161 -> 38534    \* C2A1 U+9686
      [] c0 = 194 /\ c1 = 176 -> 25523    \* C2B0 U+63B3
      [] c0 = 194 /\ c1 = 194 -> 20387    \* C2C2 U+4FA3

\* the four-byte form: the linear index of the four bytes, then the ranges
\* table below 39420 (its first range maps 0..35 to U+0080..U+00A3) or the
\* supplementary planes from 189000 on
GbFourByte(c0, c1, c2, c3) ==
    LET lin == (((c0 - 129) * 10 + (c1 - 48)) * 126 + (c2 - 129)) * 10 + (c3 - 48)
    IN IF lin < 39420 THEN [r |-> 128 + lin, size |-> 4]
       ELSE IF lin >= 189000 /\ lin - 189000 < 1048576
            THEN [r |-> lin - 189000 + 65536, size |-> 4]
       ELSE [r |-> RuneError, size |-> 1]

\* one pass of the decoder's loop over src (atEOF): the rune written and the
\* number of bytes consumed
GbStep(src) ==
    LET c0 == src[1]
        bad == [r |-> RuneError, size |-> 1]
    IN IF c0 < 128 THEN [r |-> c0, size |-> 1]
       ELSE IF c0 = 128 THEN [r |-> 8364, size |-> 1]     \* the euro sign
       ELSE IF c0 = 255 THEN bad
       ELSE IF Len(src) < 2 THEN bad
       ELSE LET c1 == src[2]
            IN IF (64 <= c1 /\ c1 < 127) \/ (128 <= c1 /\ c1 < 255)
               THEN [r |-> GbkTable(c0, c1), size |-> 2]
               ELSE IF 48 <= c1 /\ c1 < 64
               THEN IF Len(src) < 4 THEN bad
                    ELSE IF src[3] < 129 \/ src[3] >= 255 THEN bad
                    ELSE IF src[4] < 48 \/ src[4] >= 58 THEN bad
                    ELSE GbFourByte(c0, c1, src[3], src[4])
               ELSE bad

RECURSIVE GbRunes(_, _)
GbRunes(src, nSrc) ==
    IF nSrc >= Len(src) THEN <<>>
    ELSE LET st == GbStep(SubSeq(src, nSrc + 1, Len(src)))
         IN <<st.r>> \o GbRunes(src, nSrc + st.size)

\* result, _, err := transform.Bytes(decoder, data)
GbTransform(data) == [result |-> GbRunes(data, 0), err |-> FALSE]

----------------------------------------------------------------------------
(* bytesToGB18030, src/hexdump.go:602-624 *)

bytesToGB18030(data) ==
    LET t == GbTransform(data)
    IN IF t.err
       THEN [i \in 1..Len(data) |-> 46]                          \* one dot per byte
       ELSE [i \in 1..Len(t.result) |-> PrintOrDot(t.result[i])]

----------------------------------------------------------------------------
(* bytesToChars, src/hexdump.go:519-532 *)

\* mutant of BytesToCharsAs: no default branch, an encoding that is not
\* one of the four gives no characters
M_BytesToCharsAs(enc, data) ==
    CASE enc = "ISO Latin-1" -> bytesToLatin1(data)
      [] enc = "UTF-8"       -> bytesToUTF8(data)
      [] enc = "UTF-16LE"    -> bytesToUTF16LE(data)
      [] enc = "GB 18030"    -> bytesToGB18030(data)
      [] OTHER               -> <<>>

\* the switch of bytesToChars with h.encoding = enc
BytesToCharsAs(enc, data) ==
    CASE enc = "ISO Latin-1" -> bytesToLatin1(data)
      [] enc = "UTF-8"       -> bytesToUTF8(data)
      [] enc = "UTF-16LE"    -> bytesToUTF16LE(data)
      [] enc = "GB 18030"    -> bytesToGB18030(data)
      [] OTHER               -> bytesToLatin1(data)

bytesToChars(data) == BytesToCharsAs(encoding, data)

----------------------------------------------------------------------------
(* generateCharLine, src/hexdump.go:494-504.  The slice expression         *)
(* h.fileData[offset:lineEnd] panics (slice bounds out of range) when      *)
(* offset > lineEnd, which is the case exactly when offset > len(fileData).*)

Returned(text) == [panicked |-> FALSE, text |-> text]

Panicked == [panicked |-> TRUE, text |-> <<>>]

\* the bounds check of data[offset:lineEnd]
SliceInRangeOf(data, offset, lineEnd) ==
    0 <= offset /\ offset <= lineEnd /\ lineEnd <= Len(data)

\* the body of generateCharLine with h.fileData = data, h.encoding = enc
CharLineOf(data, enc, offset) ==
    LET lineEnd == LineEndOf(data, offset)
    IN IF ~SliceInRangeOf(data, offset, lineEnd) THEN Panicked
       ELSE Returned(BytesToCharsAs(enc, SliceOf(data, offset, lineEnd)) \o <<10>>)

\* the bounds check of h.fileData[offset:lineEnd]
SliceInRange(offset, lineEnd) == SliceInRangeOf(fileData, offset, lineEnd)

generateCharLine(offset) == CharLineOf(fileData, encoding, offset)

----------------------------------------------------------------------------
(* generateCharDisplay, src/hexdump.go:507-516: the character lines of the *)
(* whole buffer, one per bytesPerLine bytes.                               *)

RECURSIVE CharDisplayFrom(_)
CharDisplayFrom(offset) ==
    IF offset >= Len(fileData) THEN <<>>
    ELSE generateCharLine(offset).text \o CharDisplayFrom(offset + bytesPerLine)

generateCharDisplay == CharDisplayFrom(0)

----------------------------------------------------------------------------
(* generateHexDisplay, src/hexdump.go:450-459: the hex lines of the whole  *)
(* buffer, one per bytesPerLine bytes.                                     *)

\* offset += h.bytesPerLine
M_NextLineOffset(offset) == offset + bytesPerLine + 1

NextLineOffset(offset) == offset + bytesPerLine

RECURSIVE HexDisplayFrom(_)
HexDisplayFrom(offset) ==
    IF offset >= Len(fileData) THEN <<>>
    ELSE generateHexLine(offset) \o HexDisplayFrom(NextLineOffset(offset))

generateHexDisplay == HexDisplayFrom(0)

\* listLength of the list view, src/unnamed/part_001:258-263: the number of
\* rows; a nil buffer has length 0
listLength ==
    IF bytesPerLine = 0 THEN 0
    ELSE GoDiv(Len(fileData) + bytesPerLine - 1, bytesPerLine)

----------------------------------------------------------------------------
(* The inputs: what loadFileFromPath (src/hexdump.go:292-311) can leave in *)
(* fileData and what the two selectors can leave in the settings.          *)

\* the values onByteGroupChanged can set, src/hexdump.go:314-328
Groups == {1, 2, 4, 8, 16}

\* the options of the encoding selector, src/hexdump.go:122-125
Encodings == {"ISO Latin-1", "UTF-8", "UTF-16LE", "GB 18030"}

SeqsUpTo(S, n) == UNION {[1..k -> S] : k \in 0..n}

\* a file of len bytes whose values run through both hex digits
Pattern(len) == [i \in 1..len |-> ((i - 1) * 37 + 11) % 256]

\* k bytes "!" in front of a payload
Filler(k) == [i \in 1..k |-> 33]

\* the bytes payloads are drawn from, per encoding: the class boundaries of
\* bytesToLatin1; ASCII, continuation, lead and invalid bytes of UTF-8; the
\* low and high bytes of printable, control and surrogate UTF-16 units;
\* ASCII, lead/trail and invalid bytes of GB 18030
Alphabet(enc) ==
    CASE enc = "ISO Latin-1" -> {31, 32, 126, 127, 159, 160, 255}
      [] enc = "UTF-8"       -> {10, 33, 128, 161, 194, 226, 255}
      [] enc = "UTF-16LE"    -> {0, 33, 65, 216}
      [] enc = "GB 18030"    -> {10, 33, 161, 176, 194, 255}

\* longer payloads: "Hello"; in UTF-8 U+20AC, U+1F600, an encoded surrogate,
\* an overlong form, U+FFFD itself, and a stray continuation byte followed
\* by U+00A1 and a truncated three-byte prefix; in UTF-16LE a surrogate pair,
\* and a printable unit followed by a surrogate half and an unpaired byte;
\* in GB 18030 the four-byte forms of U+0080 and U+10000
Samples(enc) ==
    CASE enc = "ISO Latin-1" -> { <<72, 101, 108, 108, 111>> }
      [] enc = "UTF-8"       -> { <<226, 130, 172>>, <<240, 159, 152, 128>>,
                                  <<237, 160, 128>>, <<224, 128, 161>>,
                                  <<239, 191, 189>>,
                                  <<128, 194, 161, 226, 130>> }
      [] enc = "UTF-16LE"    -> { <<61, 216, 0, 222>>, <<33, 33, 61, 216, 0>> }
      [] enc = "GB 18030"    -> { <<129, 48, 129, 48>>, <<144, 48, 129, 48>> }

Payloads(enc) == SeqsUpTo(Alphabet(enc), MaxPayload) \cup Samples(enc)

PadLens == {0, MaxPad - 1, MaxPad}

HexInputs ==
    { [data |-> Pattern(len), g |-> g, enc |-> "ISO Latin-1"] :
        len \in 0..MaxLen, g \in Groups }

\* payload buffers are formatted with the default grouping and with the
\* whole line as one group
PayloadGroups == {1, 16}

CharInputs ==
    UNION { { [data |-> Filler(k) \o p, g |-> g, enc |-> enc] :
                k \in PadLens, p \in Payloads(enc), g \in PayloadGroups } :
            enc \in Encodings }

\* the offsets handed to the formatters: the line starts, and the offsets
\* around the end of the buffer, up to MaxOver beyond it
Offsets ==
    { o \in 0..(Len(fileData) + MaxOver) :
        o % bytesPerLine = 0 \/ o + MaxOver >= Len(fileData) }

NoCall == [panicked |-> FALSE, text |-> <<>>]

\* no file handle
Nil == [path |-> <<>>, pos |-> 0]

\* the label createStatusBar gives the status bar: "Ready"
Ready == <<82, 101, 97, 100, 121>>

\* a map[int]string without entries
EmptyCache == <<>>

\* the widgets and the scrolling state as setupGUI leaves them
\* (createMainContent, createStatusBar)
GuiConstructed ==
    /\ fileName = <<>>
    /\ hexDisplay = <<>>
    /\ charDisplay = <<>>
    /\ statusLabel = Ready
    /\ errorDialog = "none"
    /\ visibleLines = 30
    /\ currentTopLine = 0
    /\ totalLines = 0
    /\ lineHeight = 0
    /\ cachedHexLines = EmptyCache
    /\ cachedCharLines = EmptyCache
    /\ syncing = FALSE
    /\ hexOffset = 0
    /\ charOffset = 0
    /\ callbacks = <<>>

\* src/hexdump.go has no progressive loader: its fields stay at rest
NoLoader ==
    /\ file = Nil
    /\ fileSize = 0
    /\ loadedBytes = 0
    /\ chunkSize = 0
    /\ isLoading = FALSE
    /\ loadMoreBtn = [shown |-> FALSE, text |-> <<>>, enabled |-> TRUE]
    /\ progressLabel = [shown |-> FALSE, text |-> <<>>]
    /\ goroutines = <<>>
    /\ thread = "ui"

Init ==
    /\ \E in \in HexInputs \cup CharInputs :
        /\ fileData = in.data
        /\ bytesPerGroup = in.g
        /\ encoding = in.enc
    /\ bytesPerLine = 16
    /\ op = "none"
    /\ arg = 0
    /\ ret = NoCall
    /\ GuiConstructed
    /\ NoLoader

----------------------------------------------------------------------------
(* The calls.  The formatters only read the buffer and the settings.       *)

CallGenerateHexLine ==
    \E offset \in Offsets :
        /\ op' = "generateHexLine"
        /\ arg' = offset
        /\ ret' = Returned(generateHexLine(offset))
        /\ UNCHANGED <<settings, fileName, widgets, scrolling, loader, panes>>

CallGenerateCharLine ==
    \E offset \in Offsets :
        /\ op' = "generateCharLine"
        /\ arg' = offset
        /\ ret' = generateCharLine(offset)
        /\ UNCHANGED <<settings, fileName, widgets, scrolling, loader, panes>>

\* h.bytesToChars(lineData) on the bytes of the line at offset
CallBytesToChars ==
    \E offset \in Offsets :
        /\ offset <= Len(fileData)
        /\ op' = "bytesToChars"
        /\ arg' = offset
        /\ ret' = Returned(bytesToChars(Slice(offset, LineEnd(offset))))
        /\ UNCHANGED <<settings, fileName, widgets, scrolling, loader, panes>>

CallGenerateCharDisplay ==
    /\ op' = "generateCharDisplay"
    /\ arg' = 0
    /\ ret' = Returned(generateCharDisplay)
    /\ UNCHANGED <<settings, fileName, widgets, scrolling, loader, panes>>

CallGenerateHexDisplay ==
    /\ op' = "generateHexDisplay"
    /\ arg' = 0
    /\ ret' = Returned(generateHexDisplay)
    /\ UNCHANGED <<settings, fileName, widgets, scrolling, loader, panes>>

Next ==
    \/ CallGenerateHexLine
    \/ CallGenerateCharLine
    \/ CallBytesToChars
    \/ CallGenerateCharDisplay
    \/ CallGenerateHexDisplay

Spec == Init /\ [][Next]_vars

TypeOK ==
    /\ fileData \in Seq(0..255)
    /\ bytesPerGroup \in Groups
    /\ encoding \in Encodings
    /\ bytesPerLine = 16
    /\ op \in {"none", "generateHexLine", "generateCharLine", "bytesToChars",
               "generateCharDisplay", "generateHexDisplay"}
    /\ ret.panicked \in BOOLEAN

----------------------------------------------------------------------------
(* Vocabulary of the properties. *)

\* the value of an uppercase hexadecimal digit character, -1 for any other
HexVal(c) ==
    IF 48 <= c /\ c <= 57 THEN c - 48
    ELSE IF 65 <= c /\ c <= 70 THEN c - 55
    ELSE -1

\* the number of bytes the line at offset holds
BytesOnLine(offset) == LineEnd(offset) - offset

\* a call of generateHexLine on an offset inside the buffer has returned
HexLineCalled == op = "generateHexLine" /\ arg < Len(fileData)

\* the number read from the digits t[from..to], most significant first
RECURSIVE HexNumber(_, _, _)
HexNumber(t, from, to) ==
    IF to < from THEN 0 ELSE HexNumber(t, from, to - 1) * 16 + HexVal(t[to])

AllSpaces(t, from, to) == \A i \in from..to : t[i] = 32

\* ceil(a / b)
CeilDiv(a, b) == (a + b - 1) \div b

\* "00000000: 48 65 6C 6C 6F"
HelloHexText ==
    <<48, 48, 48, 48, 48, 48, 48, 48, 58, 32,
      52, 56, 32, 54, 53, 32, 54, 67, 32, 54, 67, 32, 54, 70>>

HelloBytes == <<72, 101, 108, 108, 111>>

----------------------------------------------------------------------------
\* C1: a hex line for an offset inside the buffer starts with the offset as
\* exactly 8 uppercase zero-padded hex digits and ": "; then come exactly
\* the bytes fileData[offset .. lineEnd-1] in order as uppercase two-digit
\* pairs, byte j of the line at column 10 + 2j + (j div g), so that bytes of
\* one group touch and exactly one space stands between consecutive groups;
\* after the last pair nothing follows but padding spaces and the line
\* terminator, and on a full line the terminator follows at once.
C1_HexLineLayout ==
    HexLineCalled =>
        LET t == ret.text
            g == bytesPerGroup
            n == BytesOnLine(arg)
            body == 2 * n + ((n - 1) \div g)
        IN /\ Len(t) >= 10 + body + 1
           /\ \A i \in 1..8 : HexVal(t[i]) >= 0
           /\ HexNumber(t, 1, 8) = arg
           /\ t[9] = 58 /\ t[10] = 32
           /\ \A j \in 0..(n - 1) :
                LET col == 10 + 2 * j + (j \div g)
                IN /\ HexVal(t[col + 1]) >= 0 /\ HexVal(t[col + 2]) >= 0
                   /\ HexNumber(t, col + 1, col + 2) = fileData[arg + j + 1]
                   /\ (j > 0 /\ j % g = 0) => t[col] = 32
           /\ AllSpaces(t, 10 + body + 1, Len(t) - 1)
           /\ t[Len(t)] = 10
           /\ n = bytesPerLine => Len(t) = 10 + body + 1

\* a partial line of three groups of four and a short fourth group
C1_Witness ==
    /\ HexLineCalled
    /\ bytesPerGroup = 4
    /\ BytesOnLine(arg) = 14

\* C2: for the selected grouping g, a hex line holding n bytes, 1 <= n <= 16,
\* is as wide as a full line, 10 + 32 + (16/g - 1) characters before the
\* terminator: the last pair is followed by exactly two spaces per missing
\* byte and one space per missing group.
C2_PartialLineWidth ==
    HexLineCalled =>
        LET t == ret.text
            g == bytesPerGroup
            n == BytesOnLine(arg)
            width == 10 + 32 + ((16 \div g) - 1)
            pad == 2 * (16 - n) + ((16 \div g) - CeilDiv(n, g))
        IN /\ Len(t) = width + 1
           /\ t[Len(t)] = 10
           /\ AllSpaces(t, width - pad + 1, width)
           /\ HexVal(t[width - pad]) >= 0

\* a short line whose last group is short too
C2_Witness ==
    /\ HexLineCalled
    /\ bytesPerGroup = 8
    /\ BytesOnLine(arg) = 3

\* C3 as stated: whichever grouping is selected, the hex line of an offset
\* has one and the same width.
C3_SameWidthForEveryGrouping ==
    HexLineCalled =>
        \A g2 \in Groups : Len(HexLine(g2, arg)) = Len(ret.text)

\* C3, amended: the width of a hex line depends on the grouping and on
\* nothing else: it is 41 + 16/g characters (57, 49, 45, 43, 42 for
\* g = 1, 2, 4, 8, 16) for full and partial lines alike, so the lines of
\* two groupings g and g2 differ in width by 16/g2 - 16/g.
C3_WidthDependsOnGrouping ==
    HexLineCalled =>
        \A g2 \in Groups :
            /\ Len(HexLine(g2, arg)) - 1 = 41 + (16 \div g2)
            /\ Len(HexLine(g2, arg)) - Len(ret.text)
                 = (16 \div g2) - (16 \div bytesPerGroup)

\* a partial line rendered in groups of two
C3_Witness ==
    /\ HexLineCalled
    /\ bytesPerGroup = 2
    /\ BytesOnLine(arg) = 5
    /\ Len(ret.text) = 50

\* the call C4 is about: the buffer "Hello", grouping 1, offset 0
HelloHexCalled ==
    /\ fileData = HelloBytes
    /\ bytesPerGroup = 1
    /\ op = "generateHexLine"
    /\ arg = 0

----------------------------------------------------------------------------
\* the bytes handed to bytesToChars by the call on the line at arg
LineData == Slice(arg, LineEnd(arg))

CharsCalled(enc) == op = "bytesToChars" /\ encoding = enc

\* C5: in ISO Latin-1 mode every byte of the slice gives exactly one
\* character: bytes 32..126 and 160..255 the code point equal to the byte,
\* bytes 0..31 and 127..159 a dot; the bytes of "Hello" give "Hello".
C5_Latin1Mapping ==
    CharsCalled("ISO Latin-1") =>
        LET data == LineData
            t == ret.text
        IN /\ Len(t) = Len(data)
           /\ \A i \in 1..Len(data) :
                /\ data[i] \in (32..126) \cup (160..255) => t[i] = data[i]
                /\ data[i] \in (0..31) \cup (127..159) => t[i] = 46
           /\ data = HelloBytes => t = <<72, 101, 108, 108, 111>>

\* a slice that holds both ends of the non-printable gap 127..159
C5_Witness ==
    /\ CharsCalled("ISO Latin-1")
    /\ \E i, j \in 1..Len(LineData) : LineData[i] = 127 /\ LineData[j] = 160
    /\ Len(ret.text) = Len(LineData)

\* utf8.EncodeRune: the shortest encoding of the code point cp; a surrogate
\* or a value above U+10FFFF has none
EncodeRune(cp) ==
    IF cp < 0 \/ cp > 1114111 \/ (55296 <= cp /\ cp <= 57343) THEN <<>>
    ELSE IF cp < 128 THEN <<cp>>
    ELSE IF cp < 2048 THEN <<192 + (cp \div 64), 128 + (cp % 64)>>
    ELSE IF cp < 65536
         THEN <<224 + (cp \div 4096), 128 + ((cp \div 64) % 64), 128 + (cp % 64)>>
    ELSE <<240 + (cp \div 262144), 128 + ((cp \div 4096) % 64),
           128 + ((cp \div 64) % 64), 128 + (cp % 64)>>

\* the payload bits of the k bytes of data from position pos (0-based)
PayloadBits(data, pos, k) ==
    CASE k = 1 -> data[pos + 1]
      [] k = 2 -> (data[pos + 1] % 32) * 64 + (data[pos + 2] % 64)
      [] k = 3 -> (data[pos + 1] % 16) * 4096 + (data[pos + 2] % 64) * 64
                  + (data[pos + 3] % 64)
      [] k = 4 -> (data[pos + 1] % 8) * 262144 + (data[pos + 2] % 64) * 4096
                  + (data[pos + 3] % 64) * 64 + (data[pos + 4] % 64)

\* the lengths k for which the k bytes at pos are the encoding of a code point
EncodedLengthsAt(data, pos) ==
    { k \in 1..4 :
        /\ pos + k <= Len(data)
        /\ EncodeRune(PayloadBits(data, pos, k)) = SubSeq(data, pos + 1, pos + k) }

\* C6: bytesToUTF8 reads the slice front to back, every byte in exactly one
\* step: where the bytes at the current position are the encoding of a code
\* point it writes that code point if printable, else a dot, and advances
\* by the length of the encoding; anywhere else (a stray continuation byte,
\* a truncated or malformed sequence) it writes one dot and advances by one.
C6_UTF8GreedyDecode ==
    CharsCalled("UTF-8") =>
        LET data == LineData
            steps == UTF8Steps(data, 0)
            n == Len(steps)
        IN /\ ret.text = [i \in 1..n |-> steps[i].out]
           /\ (n = 0) = (Len(data) = 0)
           /\ n > 0 => steps[1].pos = 0 /\ steps[n].pos + steps[n].adv = Len(data)
           /\ \A i \in 1..(n - 1) : steps[i + 1].pos = steps[i].pos + steps[i].adv
           /\ \A i \in 1..n :
                LET ks == EncodedLengthsAt(data, steps[i].pos)
                IN IF ks = {}
                   THEN steps[i].adv = 1 /\ ret.text[i] = 46
                   ELSE \E k \in ks :
                          LET cp == PayloadBits(data, steps[i].pos, k)
                          IN /\ steps[i].adv = k
                             /\ ret.text[i] = (IF IsPrint(cp) THEN cp ELSE 46)

\* a stray continuation byte, a two-byte character, a truncated prefix
C6_Witness ==
    /\ CharsCalled("UTF-8")
    /\ LineData = <<128, 194, 161, 226, 130>>
    /\ ret.text = <<46, 161, 46, 46>>

\* C7 as stated: every well-formed printable multi-byte character of the
\* file, read as UTF-8 from its start, stands as that character at its place
\* in the character view (the lines of the view, terminators aside).
C7_MultiByteShownWhole ==
    (op = "generateCharDisplay" /\ encoding = "UTF-8") =>
        LET steps == UTF8Steps(fileData, 0)
            shown == SelectSeq(ret.text, LAMBDA c : c # 10)
        IN \A i \in 1..Len(steps) :
             (steps[i].valid /\ steps[i].adv > 1 /\ IsPrint(steps[i].r)) =>
                 (i <= Len(shown) /\ shown[i] = steps[i].r)

\* the 16-bit unit of the pair i (1-based) of data, low byte first
UnitAt(data, i) == data[2 * i - 1] + 256 * data[2 * i]

IsSurrogate(u) == 55296 <= u /\ u <= 57343

\* C8 as stated: one character per pair, the unit's own character if it is
\* printable and a dot otherwise, and one dot for a trailing unpaired byte.
C8_UTF16UnitOrDot ==
    CharsCalled("UTF-16LE") =>
        LET data == LineData
            t == ret.text
            pairs == Len(data) \div 2
        IN /\ Len(t) = CeilDiv(Len(data), 2)
           /\ \A i \in 1..pairs :
                t[i] = (IF IsPrint(UnitAt(data, i)) THEN UnitAt(data, i) ELSE 46)
           /\ Len(data) % 2 = 1 => t[Len(t)] = 46

\* C8, amended: bytesToUTF16LE takes the slice in pairs, low byte first, and
\* never combines surrogates; each unit gives exactly one character: U+FFFD
\* (the replacement character utf16.Decode substitutes, which is printable)
\* if the unit is a surrogate half 0xD800..0xDFFF, else the unit's own
\* character if it is printable and a dot otherwise; a trailing unpaired
\* byte gives exactly one dot, so n bytes always give ceil(n/2) characters.
C8_UTF16UnitReplacementOrDot ==
    CharsCalled("UTF-16LE") =>
        LET data == LineData
            t == ret.text
            pairs == Len(data) \div 2
        IN /\ Len(t) = CeilDiv(Len(data), 2)
           /\ \A i \in 1..pairs :
                LET u == UnitAt(data, i)
                IN t[i] = (IF IsSurrogate(u) THEN 65533
                           ELSE IF IsPrint(u) THEN u ELSE 46)
           /\ Len(data) % 2 = 1 => t[Len(t)] = 46

\* an odd slice: a printable unit, a surrogate half, an unpaired byte
C8_Witness ==
    /\ CharsCalled("UTF-16LE")
    /\ LineData = <<33, 33, 61, 216, 0>>
    /\ ret.text = <<8481, 65533, 46>>

\* C9 as stated: a slice that is not valid GB 18030 (here: one that holds
\* the byte 0xFF, which no GB 18030 sequence contains) comes out as one dot
\* per input byte.
C9_GBInvalidGivesDots ==
    (CharsCalled("GB 18030") /\ \E i \in 1..Len(LineData) : LineData[i] = 255) =>
        ret.text = [i \in 1..Len(LineData) |-> 46]

\* C10 as stated: for an offset at or beyond the end of the buffer both
\* formatters return normally, the hex line with address and padding only,
\* the character line with no characters.
C10_OutOfRangeOffsetIsEmpty ==
    (op \in {"generateHexLine", "generateCharLine"} /\ arg >= Len(fileData)) =>
        /\ ~ret.panicked
        /\ op = "generateHexLine" =>
             /\ Len(ret.text) > 11
             /\ HexNumber(ret.text, 1, 8) = arg
             /\ ret.text[9] = 58
             /\ AllSpaces(ret.text, 10, Len(ret.text) - 1)
             /\ ret.text[Len(ret.text)] = 10
        /\ op = "generateCharLine" => ret.text = <<10>>

----------------------------------------------------------------------------
(***************************************************************************)
(* The application of src/hexdump.go as a state machine: the handlers of   *)
(* the file dialog, of the two selectors and of the scroll containers,     *)
(* each with the display and status updates it ends with.                  *)
(***************************************************************************)

\* the files on disk have MidLines lines and one line more; the last line
\* of the shorter one holds TailLen bytes
MidLines == 8
TailLen == 9

\* a byte of a file: "!" and "A", which every encoding shows as themselves
\* or as part of a printable UTF-16 unit, and 0xFF, which the four encodings
\* show in four different ways
FileByte(n) == <<33, 65, 255, 65, 33, 33, 255>>[(n % 7) + 1]

FileBytes(len, seed) == SubSeq([i \in 1..len |-> FileByte(i * i + seed * i)], 1, len)

\* the paths the file dialog hands over: "e" an empty file, "m" a file of
\* several lines, "n" a longer file that agrees with "m" on its first line
\* only, "x" no file
PathE == <<101>>
PathM == <<109>>
PathN == <<110>>
PathX == <<120>>

Paths == {PathE, PathM, PathN, PathX}

MidLen == (MidLines - 1) * 16 + TailLen

\* what io.ReadAll delivers for the files that exist
Disk(path) ==
    CASE path = PathE -> <<>>
      [] path = PathM -> FileBytes(MidLen, 2)
      [] path = PathN -> SubSeq(FileBytes(MidLen, 2), 1, 16)
                         \o SubSeq(FileBytes(MidLen + 16, 3), 17, MidLen + 16)

\* how a load can end: os.Open fails (here: for the path without a file),
\* io.ReadAll fails (here: on the file of several lines, which may also be
\* read without error), or the data arrives
LoadOutcomes(path) ==
    CASE path = PathX -> {"open error"}
      [] path = PathM -> {"read error", "ok"}
      [] OTHER        -> {"ok"}

\* fmt's %d of a non-negative int
RECURSIVE Decimal(_)
Decimal(n) == IF n < 10 THEN <<48 + n>> ELSE Decimal(n \div 10) \o <<48 + (n % 10)>>

\* updateStatus, src/hexdump.go:627-633: the text it gives the status label
\* with h.fileName = name and h.fileData = data, "File: %s | Size: %d bytes"
StatusText(name, data) ==
    IF name = <<>> THEN Ready
    ELSE <<70, 105, 108, 101, 58, 32>> \o name
         \o <<32, 124, 32, 83, 105, 122, 101, 58, 32>> \o Decimal(Len(data))
         \o <<32, 98, 121, 116, 101, 115>>

\* the lines of a window one after the other
RECURSIVE JoinLines(_, _, _)
JoinLines(lines, lineNum, stop) ==
    IF lineNum >= stop THEN <<>>
    ELSE lines[lineNum] \o JoinLines(lines, lineNum + 1, stop)

\* the loop of generateVisibleHexDisplay / generateVisibleCharDisplay from
\* lineNum to endLine over a buffer of dataLen bytes: a cached line is
\* copied, any other line is generated (gen) and entered in the cache, and
\* the loop breaks at the first uncached line that starts beyond the data
VisibleLoop(gen, cache, lineNum, endLine, bpl, dataLen) ==
    LET breaks == { n \in lineNum..(endLine - 1) :
                        n \notin DOMAIN cache /\ n * bpl >= dataLen }
        stop == IF breaks = {} THEN endLine
                ELSE CHOOSE n \in breaks : \A m \in breaks : n <= m
        written == lineNum..(stop - 1)
        after == [n \in DOMAIN cache \cup written |->
                    IF n \in DOMAIN cache THEN cache[n] ELSE gen[n]]
    IN [text |-> JoinLines(after, lineNum, stop), cache |-> after]

\* generateVisibleHexDisplay, src/hexdump.go:365-394, with h.fileData =
\* data, h.bytesPerGroup = g, h.currentTopLine = top, h.totalLines = total,
\* on the cache handed in: the text built and the cache left behind
generateVisibleHexDisplay(data, g, cache, top, total) ==
    LET endLine == Min(top + visibleLines, total)
        gen == [lineNum \in top..(endLine - 1) |->
                    HexLineOf(data, g, lineNum * bytesPerLine)]
    IN VisibleLoop(gen, cache, top, endLine, bytesPerLine, Len(data))

\* generateVisibleCharDisplay, src/hexdump.go:462-491, with h.encoding = enc
generateVisibleCharDisplay(data, enc, cache, top, total) ==
    LET endLine == Min(top + visibleLines, total)
        gen == [lineNum \in top..(endLine - 1) |->
                    CharLineOf(data, enc, lineNum * bytesPerLine).text]
    IN VisibleLoop(gen, cache, top, endLine, bytesPerLine, Len(data))

\* the cache updateDisplay starts the generators with: "Clear cache when
\* settings change"
M_ClearedCache(cache) == cache

ClearedCache(cache) == EmptyCache

\* updateDisplay, src/hexdump.go:337-362, run at the end of a handler that
\* has assigned the buffer and the settings of the next state.  With an
\* empty buffer it empties both widgets and returns: totalLines and the
\* caches stay as they are.
updateDisplay ==
    IF Len(fileData') = 0
    THEN /\ hexDisplay' = <<>>
         /\ charDisplay' = <<>>
         /\ UNCHANGED <<totalLines, cachedHexLines, cachedCharLines>>
    ELSE /\ totalLines' = GoDiv(Len(fileData') + bytesPerLine' - 1, bytesPerLine')
         /\ LET hex == generateVisibleHexDisplay(fileData', bytesPerGroup',
                            ClearedCache(cachedHexLines), currentTopLine', totalLines')
                char == generateVisibleCharDisplay(fileData', encoding',
                            ClearedCache(cachedCharLines), currentTopLine', totalLines')
            IN /\ hexDisplay' = hex.text
               /\ cachedHexLines' = hex.cache
               /\ charDisplay' = char.text
               /\ cachedCharLines' = char.cache

\* refreshVisibleContent, src/hexdump.go:265-275, run by a handler that has
\* assigned currentTopLine: both generators on the caches as they are
refreshVisibleContent ==
    LET hex == generateVisibleHexDisplay(fileData, bytesPerGroup, cachedHexLines,
                                         currentTopLine', totalLines)
        char == generateVisibleCharDisplay(fileData, encoding, cachedCharLines,
                                           currentTopLine', totalLines)
    IN /\ hexDisplay' = hex.text
       /\ cachedHexLines' = hex.cache
       /\ charDisplay' = char.text
       /\ cachedCharLines' = char.cache

\* the rest of the state, which no handler of src/hexdump.go touches
appFrame == <<bytesPerLine, visibleLines, op, arg, ret, loader, panes>>

\* loadFileFromPath, src/hexdump.go:292-311.  dialog.ShowError puts a modal
\* dialog over the window: no other handler runs until it is dismissed.
loadFileFromPath(filePath, outcome) ==
    /\ errorDialog = "none"
    /\ IF outcome = "ok"
       THEN /\ fileData' = Disk(filePath)
            /\ fileName' = filePath
            /\ UNCHANGED <<bytesPerGroup, encoding, currentTopLine, lineHeight,
                           syncing, errorDialog, appFrame>>
            /\ updateDisplay
            /\ statusLabel' = StatusText(fileName', fileData')
       ELSE /\ errorDialog' = outcome
            /\ UNCHANGED <<settings, fileName, hexDisplay, charDisplay, statusLabel,
                           scrolling, op, arg, ret, loader, panes>>

\* the user closes the error dialog
DismissError ==
    /\ errorDialog # "none"
    /\ errorDialog' = "none"
    /\ UNCHANGED <<settings, fileName, hexDisplay, charDisplay, statusLabel,
                   scrolling, op, arg, ret, loader, panes>>

\* the switch of onByteGroupChanged: the grouping a selected value leaves
M_GroupOfSelection(value) ==
    CASE value = "1 byte"   -> 1
      [] value = "2 bytes"  -> 2
      [] value = "4 bytes"  -> 4
      [] value = "8 bytes"  -> 8
      [] value = "16 bytes" -> 16
      [] OTHER              -> 0

GroupOfSelection(value) ==
    CASE value = "1 byte"   -> 1
      [] value = "2 bytes"  -> 2
      [] value = "4 bytes"  -> 4
      [] value = "8 bytes"  -> 8
      [] value = "16 bytes" -> 16
      [] OTHER              -> bytesPerGroup

\* onByteGroupChanged, src/hexdump.go:314-328
onByteGroupChanged(value) ==
    /\ errorDialog = "none"
    /\ bytesPerGroup' = GroupOfSelection(value)
    /\ UNCHANGED <<fileData, fileName, encoding, currentTopLine, lineHeight,
                   syncing, statusLabel, errorDialog, appFrame>>
    /\ updateDisplay

\* onEncodingChanged, src/hexdump.go:331-334
onEncodingChanged(value) ==
    /\ errorDialog = "none"
    /\ encoding' = value
    /\ UNCHANGED <<fileData, fileName, bytesPerGroup, currentTopLine, lineHeight,
                   syncing, statusLabel, errorDialog, appFrame>>
    /\ updateDisplay

\* newTopLine of updateVirtualScroll: int(scrollY / h.lineHeight), clamped
\* to 0..totalLines-1
NewTopLine(scrollY, height) ==
    LET newTopLine == GoDiv(scrollY, height)
        atLeast0 == IF newTopLine < 0 THEN 0 ELSE newTopLine
    IN IF atLeast0 >= totalLines THEN totalLines - 1 ELSE atLeast0

abs(x) == IF x < 0 THEN -x ELSE x

\* updateVirtualScroll, src/hexdump.go:230-254
updateVirtualScroll(scrollY) ==
    IF Len(fileData) = 0
    THEN UNCHANGED <<lineHeight, currentTopLine, hexDisplay, charDisplay,
                     cachedHexLines, cachedCharLines>>
    ELSE /\ lineHeight' = IF lineHeight = 0 THEN 20 ELSE lineHeight
         /\ IF abs(NewTopLine(scrollY, lineHeight') - currentTopLine) > 5
            THEN /\ currentTopLine' = NewTopLine(scrollY, lineHeight')
                 /\ refreshVisibleContent
            ELSE UNCHANGED <<currentTopLine, hexDisplay, charDisplay,
                             cachedHexLines, cachedCharLines>>

\* the OnScrolled callbacks of synchronizeScrolling, src/hexdump.go:201-226:
\* the flag is raised, the other container gets the position, the window is
\* moved, the flag is lowered
OnScrolled(position) ==
    /\ errorDialog = "none"
    /\ ~syncing
    /\ UNCHANGED <<settings, fileName, statusLabel, errorDialog, totalLines,
                   visibleLines, op, arg, ret, loader, callbacks>>
    /\ hexOffset' = position
    /\ charOffset' = position
    /\ updateVirtualScroll(position)
    /\ syncing' = FALSE

\* the values the grouping selector can hand to onByteGroupChanged: its
\* five options, and a value that is none of them
GroupChoices == {"1 byte", "2 bytes", "4 bytes", "8 bytes", "16 bytes", "3 bytes"}

\* the values handed to onEncodingChanged: the four options, and a value
\* that is none of them
EncodingChoices == Encodings \cup {"EBCDIC"}

\* the vertical scroll positions, in pixels: the top, six lines down at the
\* default line height, and far below the end of every file
ScrollYs == {0, 130, 900}

\* the state setupGUI leaves: no file, the defaults of NewHexDumpApp, which
\* createToolbar selects once more
InitApp ==
    /\ fileData = <<>>
    /\ bytesPerGroup = 1
    /\ encoding = "ISO Latin-1"
    /\ bytesPerLine = 16
    /\ op = "none"
    /\ arg = 0
    /\ ret = NoCall
    /\ GuiConstructed
    /\ NoLoader

LoadFile == \E filePath \in Paths : \E outcome \in LoadOutcomes(filePath) :
                loadFileFromPath(filePath, outcome)

SelectGrouping == \E value \in GroupChoices : onByteGroupChanged(value)

SelectEncoding == \E value \in EncodingChoices : onEncodingChanged(value)

Scroll == \E position \in ScrollYs : OnScrolled(position)

NextApp ==
    \/ LoadFile
    \/ DismissError
    \/ SelectGrouping
    \/ SelectEncoding
    \/ Scroll

SpecApp == InitApp /\ [][NextApp]_vars

----------------------------------------------------------------------------
(* Vocabulary of the properties of the application. *)

\* what generateHexLine / generateCharLine compute for line n in this state
FreshHexLine(n) == generateHexLine(n * bytesPerLine)

FreshCharLine(n) == generateCharLine(n * bytesPerLine).text

\* the lines in the window of the two displays
WindowEnd == Min(currentTopLine + visibleLines, totalLines)

\* the text of the window when every line of it is computed afresh
FreshHexWindow ==
    JoinLines([n \in currentTopLine..(WindowEnd - 1) |-> FreshHexLine(n)],
              currentTopLine, WindowEnd)

FreshCharWindow ==
    JoinLines([n \in currentTopLine..(WindowEnd - 1) |-> FreshCharLine(n)],
              currentTopLine, WindowEnd)

----------------------------------------------------------------------------
(* C11: a line served from the per-line cache equals the line computed     *)
(* afresh.  While a file with data is loaded, after any sequence of load,  *)
(* grouping, encoding and scroll operations, every entry of cachedHexLines *)
(* and cachedCharLines is the line generateHexLine / generateCharLine      *)
(* return for the current buffer and settings, and both displays show the  *)
(* freshly computed lines of the window.                                   *)

C11_CachedLinesAreCurrent ==
    Len(fileData) > 0 =>
        /\ \A n \in DOMAIN cachedHexLines : cachedHexLines[n] = FreshHexLine(n)
        /\ \A n \in DOMAIN cachedCharLines : cachedCharLines[n] = FreshCharLine(n)
        /\ hexDisplay = FreshHexWindow
        /\ charDisplay = FreshCharWindow

\* the window was scrolled to the last line of the file of several lines
\* and filled from the cache, which holds every line of the file, under a
\* grouping and an encoding other than the defaults
C11_Witness ==
    /\ fileName = PathM
    /\ bytesPerGroup = 4
    /\ encoding = "UTF-16LE"
    /\ currentTopLine = MidLines - 1
    /\ DOMAIN cachedHexLines = 0..(MidLines - 1)
    /\ DOMAIN cachedCharLines = 0..(MidLines - 1)
    /\ hexDisplay = cachedHexLines[MidLines - 1]

----------------------------------------------------------------------------
(* C12: changing bytesPerGroup alone changes only the spaces of the hex    *)
(* lines.  In every step that changes the grouping, the hex display before *)
(* and after holds the same characters once the spaces are removed (the    *)
(* same addresses and the same hex digits in the same order), and the      *)
(* character display is the same text.                                     *)

\* a text without its spaces
Unspaced(text) == SelectSeq(text, LAMBDA c : c # 32)

C12_GroupingChangesOnlySpaces ==
    [][ bytesPerGroup' # bytesPerGroup =>
            /\ Unspaced(hexDisplay') = Unspaced(hexDisplay)
            /\ hexDisplay' # hexDisplay \/ hexDisplay = <<>>
            /\ charDisplay' = charDisplay ]_vars

\* eight-byte groups were selected for a file whose lines are on display,
\* the last of them a partial line
C12_Witness ==
    /\ bytesPerGroup = 8
    /\ fileName = PathM
    /\ currentTopLine = 0
    /\ Len(hexDisplay) = MidLines * Len(HexLine(8, 0))
    /\ Len(charDisplay) = MidLen + MidLines

----------------------------------------------------------------------------
(* C13: the character count matches the hex data on each line.  For every  *)
(* encoding of the selector, the character line of an offset inside the    *)
(* buffer holds, before its line terminator, as many characters as the hex *)
(* line of that offset shows bytes.                                        *)

----------------------------------------------------------------------------
(* C14: a line is derived from its 16-byte slice and the line settings     *)
(* only.  When a load replaces the buffer by one that holds the same bytes *)
(* at a line that is on display before and after, that line of the hex     *)
(* display and of the character display is the same text, whatever the     *)
(* other bytes of the two buffers are; a change of the encoding leaves the *)
(* hex display as it is, and a change of the grouping leaves the character *)
(* display as it is.                                                       *)

\* the k-th line of a display text, with its line terminator
DisplayLine(text, k) ==
    LET ends == { i \in 1..Len(text) : text[i] = 10 }
        EndOf(j) == CHOOSE i \in ends : Cardinality({ e \in ends : e <= i }) = j
    IN SubSeq(text, IF k = 1 THEN 1 ELSE EndOf(k - 1) + 1, EndOf(k))

\* the number of lines of a display text
DisplayLines(text) == Cardinality({ i \in 1..Len(text) : text[i] = 10 })

\* the bytes of line n of a buffer: data[16n : min(16n + 16, len)]
BytesOfLine(data, n) ==
    SubSeq(data, 16 * n + 1, Min(16 * n + 16, Len(data)))

C14_LineDependsOnItsSliceOnly ==
    [][ /\ fileData' # fileData =>
            \A k \in 1..Min(DisplayLines(hexDisplay), DisplayLines(hexDisplay')) :
                BytesOfLine(fileData', currentTopLine + k - 1)
                    = BytesOfLine(fileData, currentTopLine + k - 1)
                => /\ DisplayLine(hexDisplay', k) = DisplayLine(hexDisplay, k)
                   /\ DisplayLine(charDisplay', k) = DisplayLine(charDisplay, k)
        /\ encoding' # encoding => hexDisplay' = hexDisplay
        /\ bytesPerGroup' # bytesPerGroup => charDisplay' = charDisplay ]_vars

\* the longer file is on display: its first line is the first line of the
\* other file, its second line is not that file's second line
C14_Witness ==
    /\ fileName = PathN
    /\ encoding = "GB 18030"
    /\ bytesPerGroup = 2
    /\ currentTopLine = 0
    /\ DisplayLines(hexDisplay) = MidLines + 1
    /\ BytesOfLine(fileData, 0) = BytesOfLine(Disk(PathM), 0)
    /\ BytesOfLine(fileData, 1) # BytesOfLine(Disk(PathM), 1)
    /\ DisplayLine(hexDisplay, 1) = HexLineOf(Disk(PathM), 2, 0)
    /\ DisplayLine(charDisplay, 1) = CharLineOf(Disk(PathM), "GB 18030", 0).text

----------------------------------------------------------------------------
(***************************************************************************)
(* The progressive loader (src/unnamed/part_000, second file, lines 547 to *)
(* 1246): the same formatter, a display that always holds the whole        *)
(* buffer, and a file that is read chunk by chunk, by loadFileFromPath, by *)
(* the Load More button, and by a goroutine checkAutoLoad starts.          *)
(*                                                                         *)
(* NewHexDumpApp sets chunkSize to 1 MiB.  The model runs the loader's     *)
(* arithmetic with chunks of ChunkSize bytes, so that files of several     *)
(* chunks stay small.                                                      *)
(***************************************************************************)

\* the bytes of a chunk
ChunkSize == 20

\* the bytes of the short file
ShortLen == 5

\* the goroutines that can be under way at a time
MaxGoroutines == 1

\* 1024*1024, the divisor of the progress texts
MB == 1048576

\* the paths: "e" an empty file, "s" a file shorter than a chunk, "l" a file
\* of two chunks and a part of a third, "x" no file
PathS == <<115>>
PathL == <<108>>

LoaderPaths == {PathE, PathS, PathL, PathX}

\* the bytes of the files that exist
LoaderDisk(path) ==
    CASE path = PathE -> <<>>
      [] path = PathS -> FileBytes(ShortLen, 1)
      [] path = PathL -> FileBytes(2 * ChunkSize + TailLen, 2)

\* how loadFileFromPath can end: os.Open fails, file.Stat fails, the first
\* file.Read fails, or the first chunk arrives
LoaderOutcomes(path) ==
    CASE path = PathX -> {"open error"}
      [] path = PathL -> {"read error", "ok"}
      [] path = PathS -> {"stat error", "ok"}
      [] OTHER        -> {"ok"}

\* generateHexDisplay, part_000:978-987, and generateCharDisplay,
\* part_000:1003-1012: the lines of the whole buffer
WholeHexDisplay(data, g) ==
    LET lines == GoDiv(Len(data) + bytesPerLine - 1, bytesPerLine)
    IN JoinLines([n \in 0..(lines - 1) |-> HexLineOf(data, g, n * bytesPerLine)],
                 0, lines)

WholeCharDisplay(data, enc) ==
    LET lines == GoDiv(Len(data) + bytesPerLine - 1, bytesPerLine)
    IN JoinLines([n \in 0..(lines - 1) |-> CharLineOf(data, enc, n * bytesPerLine).text],
                 0, lines)

\* the fields and widgets the loader's functions work on, as a record h
HState ==
    [ fileData |-> fileData, fileName |-> fileName, file |-> file,
      fileSize |-> fileSize, loadedBytes |-> loadedBytes, isLoading |-> isLoading,
      loadMoreBtn |-> loadMoreBtn, progressLabel |-> progressLabel,
      hexDisplay |-> hexDisplay, charDisplay |-> charDisplay,
      statusLabel |-> statusLabel, errorDialog |-> errorDialog,
      totalLines |-> totalLines, bytesPerGroup |-> bytesPerGroup,
      encoding |-> encoding, hexOffset |-> hexOffset, charOffset |-> charOffset ]

\* the next state holds the record h
Becomes(h) ==
    /\ fileData' = h.fileData
    /\ fileName' = h.fileName
    /\ file' = h.file
    /\ fileSize' = h.fileSize
    /\ loadedBytes' = h.loadedBytes
    /\ isLoading' = h.isLoading
    /\ loadMoreBtn' = h.loadMoreBtn
    /\ progressLabel' = h.progressLabel
    /\ hexDisplay' = h.hexDisplay
    /\ charDisplay' = h.charDisplay
    /\ statusLabel' = h.statusLabel
    /\ errorDialog' = h.errorDialog
    /\ totalLines' = h.totalLines
    /\ bytesPerGroup' = h.bytesPerGroup
    /\ encoding' = h.encoding
    /\ hexOffset' = h.hexOffset
    /\ charOffset' = h.charOffset
    /\ UNCHANGED <<bytesPerLine, op, arg, ret, visibleLines, currentTopLine,
                   lineHeight, cachedHexLines, cachedCharLines, syncing, chunkSize,
                   callbacks>>

\* the texts of the button and of the progress label
LoadMoreText == <<76, 111, 97, 100, 32, 77, 111, 114, 101>>

LoadingText == <<76, 111, 97, 100, 105, 110, 103, 46, 46, 46>>

\* "Loaded %d of %d MB"
LoadedOfText(loaded, size) ==
    <<76, 111, 97, 100, 101, 100, 32>> \o Decimal(loaded \div MB)
    \o <<32, 111, 102, 32>> \o Decimal(size \div MB) \o <<32, 77, 66>>

\* "Complete: %d MB"
CompleteText(size) ==
    <<67, 111, 109, 112, 108, 101, 116, 101, 58, 32>> \o Decimal(size \div MB)
    \o <<32, 77, 66>>

\* updateLoadMoreButton, part_000:1183-1211
updateLoadMoreButton(h) ==
    IF h.file = Nil
    THEN [h EXCEPT !.loadMoreBtn.shown = FALSE, !.progressLabel.shown = FALSE]
    ELSE IF h.loadedBytes >= h.fileSize
    THEN [h EXCEPT !.progressLabel = [shown |-> TRUE, text |-> CompleteText(h.fileSize)],
                   !.loadMoreBtn.shown = FALSE]
    ELSE [h EXCEPT !.progressLabel =
                       [shown |-> TRUE, text |-> LoadedOfText(h.loadedBytes, h.fileSize)],
                   !.loadMoreBtn =
                       IF h.isLoading
                       THEN [shown |-> TRUE, text |-> LoadingText, enabled |-> FALSE]
                       ELSE [shown |-> TRUE, text |-> LoadMoreText, enabled |-> TRUE]]

\* updateDisplay, part_000:900-922
updateDisplayWhole(h) ==
    IF Len(h.fileData) = 0
    THEN [h EXCEPT !.hexDisplay = <<>>, !.charDisplay = <<>>]
    ELSE [h EXCEPT !.totalLines = GoDiv(Len(h.fileData) + bytesPerLine - 1, bytesPerLine),
                   !.hexDisplay = WholeHexDisplay(h.fileData, h.bytesPerGroup),
                   !.charDisplay = WholeCharDisplay(h.fileData, h.encoding)]

\* updateStatus, part_000:1123-1129
updateStatus(h) == [h EXCEPT !.statusLabel = StatusText(h.fileName, h.fileData)]

\* h.file.Read(chunkData) with len(chunkData) = want: the bytes read and the
\* handle with its position moved on; at the end of the file no bytes (and
\* the error "EOF", which loadNextChunk passes over)
ReadFrom(f, want) ==
    LET content == LoaderDisk(f.path)
        n == Min(want, Len(content) - f.pos)
    IN [data |-> SubSeq(content, f.pos + 1, f.pos + n),
        file |-> [f EXCEPT !.pos = f.pos + n]]

\* the part of loadNextChunk after the read, part_000:1168-1179, with the
\* bytes that were read
appendChunk(h, data) ==
    LET loaded == IF Len(data) > 0
                  THEN updateStatus(updateDisplayWhole(
                           [h EXCEPT !.fileData = h.fileData \o data,
                                     !.loadedBytes = h.loadedBytes + Len(data)]))
                  ELSE h
    IN updateLoadMoreButton([loaded EXCEPT !.isLoading = FALSE])

\* the error branch of loadNextChunk, part_000:1161-1166
readFailed(h) ==
    updateLoadMoreButton([h EXCEPT !.errorDialog = "read error", !.isLoading = FALSE])

\* the chunk size loadNextChunk computes, part_000:1152-1156
WantedBytes(h) == Min(chunkSize, h.fileSize - h.loadedBytes)

\* loadNextChunk, part_000:1137-1180, run from start to end on the UI
\* thread; readOk tells whether file.Read succeeds
loadNextChunk(h, readOk) ==
    IF h.file = Nil \/ h.isLoading THEN h
    ELSE IF h.loadedBytes >= h.fileSize THEN updateLoadMoreButton(h)
    ELSE LET marked == updateLoadMoreButton([h EXCEPT !.isLoading = TRUE])
             read == ReadFrom(marked.file, WantedBytes(marked))
         IN IF ~readOk THEN readFailed(marked)
            ELSE appendChunk([marked EXCEPT !.file = read.file], read.data)

\* loadFileFromPath, part_000:842-874: the handle of the file before is
\* closed first; after os.Open and file.Stat the loading state is set anew
\* and the first chunk is loaded
loadFileFromPathChunked(h, filePath, outcome) ==
    LET closed == [h EXCEPT !.file = Nil]
        opened == [closed EXCEPT !.file = [path |-> filePath, pos |-> 0],
                                 !.fileName = filePath,
                                 !.fileSize = Len(LoaderDisk(filePath)),
                                 !.loadedBytes = 0,
                                 !.fileData = <<>>,
                                 !.isLoading = FALSE]
    IN IF outcome \in {"open error", "stat error"}
       THEN [closed EXCEPT !.errorDialog = outcome]
       ELSE loadNextChunk(opened, outcome = "ok")

\* onByteGroupChanged, part_000:877-891
onByteGroupChangedChunked(h, value) ==
    updateDisplayWhole([h EXCEPT !.bytesPerGroup =
        CASE value = "1 byte"   -> 1
          [] value = "2 bytes"  -> 2
          [] value = "4 bytes"  -> 4
          [] value = "8 bytes"  -> 8
          [] value = "16 bytes" -> 16
          [] OTHER              -> h.bytesPerGroup])

\* onEncodingChanged, part_000:894-897
onEncodingChangedChunked(h, value) ==
    updateDisplayWhole([h EXCEPT !.encoding = value])

\* the test of checkAutoLoad, part_000:1214-1245, with the heights of the
\* hex display and of the scroll container and the offset of the scroll:
\* whether it starts go h.loadNextChunk().  offsetY / maxScrollY >= 0.9
autoLoads(h, contentHeight, viewportHeight, offsetY) ==
    /\ ~(h.file = Nil \/ h.isLoading \/ h.loadedBytes >= h.fileSize)
    /\ contentHeight > 0
    /\ viewportHeight > 0
    /\ contentHeight - viewportHeight > 0
    /\ 10 * offsetY >= 9 * (contentHeight - viewportHeight)

\* a goroutine that has been started and has not run yet
Started == [pc |-> "start", want |-> 0, data |-> <<>>]

\* the steps of the user interface thread; an error dialog is modal
UiStep(h) ==
    /\ errorDialog = "none"
    /\ Becomes(h)
    /\ thread' = "ui"

LoadFileChunked ==
    \E filePath \in LoaderPaths : \E outcome \in LoaderOutcomes(filePath) :
        /\ UiStep(loadFileFromPathChunked(HState, filePath, outcome))
        /\ UNCHANGED goroutines

\* the button "Load More", part_000:689: loadNextChunk on the UI thread
ClickLoadMore ==
    /\ loadMoreBtn.shown
    /\ loadMoreBtn.enabled
    /\ \E readOk \in BOOLEAN : UiStep(loadNextChunk(HState, readOk))
    /\ UNCHANGED goroutines

LoaderGroupChoices == {"4 bytes", "3 bytes"}

LoaderEncodingChoices == {"ISO Latin-1", "UTF-8"}

SelectGroupingChunked ==
    /\ \E value \in LoaderGroupChoices : UiStep(onByteGroupChangedChunked(HState, value))
    /\ UNCHANGED goroutines

SelectEncodingChunked ==
    /\ \E value \in LoaderEncodingChoices : UiStep(onEncodingChangedChunked(HState, value))
    /\ UNCHANGED goroutines

\* the geometry of the scroll events: the height of the content, the height
\* of the viewport, the offset
Geometries ==
    { [content |-> 0, viewport |-> 400, offsetY |-> 0],
      [content |-> 1000, viewport |-> 400, offsetY |-> 300],
      [content |-> 1000, viewport |-> 400, offsetY |-> 570] }

\* hexScroll.OnScrolled, part_000:771-794: the other scroll is moved along
\* under the syncing flag, then checkAutoLoad starts at most one goroutine
OnScrolledChunked ==
    /\ ~syncing
    /\ \E geo \in Geometries :
         /\ goroutines' =
                IF /\ autoLoads(HState, geo.content, geo.viewport, geo.offsetY)
                   /\ Len(goroutines) < MaxGoroutines
                THEN Append(goroutines, Started)
                ELSE goroutines
         /\ UiStep([HState EXCEPT !.hexOffset = geo.offsetY,
                                  !.charOffset = geo.offsetY])

DismissErrorChunked ==
    /\ errorDialog # "none"
    /\ Becomes([HState EXCEPT !.errorDialog = "none"])
    /\ thread' = "ui"
    /\ UNCHANGED goroutines

\* the goroutines without the i-th
Without(i) == SubSeq(goroutines, 1, i - 1) \o SubSeq(goroutines, i + 1, Len(goroutines))

\* the first part of loadNextChunk in a goroutine, part_000:1137-1159: the
\* tests, isLoading = true, the button, and the size of the chunk to read
GoBegin ==
    \E i \in DOMAIN goroutines :
        /\ goroutines[i].pc = "start"
        /\ LET h == HState
           IN IF h.file = Nil \/ h.isLoading
              THEN /\ Becomes(h)
                   /\ goroutines' = Without(i)
              ELSE IF h.loadedBytes >= h.fileSize
              THEN /\ Becomes(updateLoadMoreButton(h))
                   /\ goroutines' = Without(i)
              ELSE /\ Becomes(updateLoadMoreButton([h EXCEPT !.isLoading = TRUE]))
                   /\ goroutines' = [goroutines EXCEPT ![i] =
                                        [pc |-> "read", want |-> WantedBytes(h),
                                         data |-> <<>>]]
        /\ thread' = "goroutine"

\* the read, part_000:1158-1166: h.file.Read into the chunk, on the handle
\* h.file holds at this moment; Read on a nil handle returns an error.  On
\* an error the dialog is shown, the flag lowered and the goroutine returns;
\* otherwise it goes on with the bytes it has read.
GoRead ==
    \E i \in DOMAIN goroutines : \E readOk \in BOOLEAN :
        /\ goroutines[i].pc = "read"
        /\ LET h == HState
           IN IF h.file = Nil \/ ~readOk
              THEN /\ Becomes(readFailed(h))
                   /\ goroutines' = Without(i)
              ELSE LET read == ReadFrom(h.file, goroutines[i].want)
                   IN /\ Becomes([h EXCEPT !.file = read.file])
                      /\ goroutines' = [goroutines EXCEPT ![i] =
                            [pc |-> "apply", want |-> goroutines[i].want,
                             data |-> read.data]]
        /\ thread' = "goroutine"

\* the rest, part_000:1168-1180: the bytes read are appended to h.fileData
\* as it is now, the displays and the status are set, the flag is lowered
GoApply ==
    \E i \in DOMAIN goroutines :
        /\ goroutines[i].pc = "apply"
        /\ Becomes(appendChunk(HState, goroutines[i].data))
        /\ goroutines' = Without(i)
        /\ thread' = "goroutine"

\* the state setupGUI leaves in the progressive loader, part_000:612-621,
\* 668-755
InitLoader ==
    /\ fileData = <<>>
    /\ bytesPerGroup = 1
    /\ encoding = "ISO Latin-1"
    /\ bytesPerLine = 16
    /\ op = "none"
    /\ arg = 0
    /\ ret = NoCall
    /\ GuiConstructed
    /\ file = Nil
    /\ fileSize = 0
    /\ loadedBytes = 0
    /\ chunkSize = ChunkSize
    /\ isLoading = FALSE
    /\ loadMoreBtn = [shown |-> FALSE, text |-> LoadMoreText, enabled |-> TRUE]
    /\ progressLabel = [shown |-> FALSE, text |-> <<>>]
    /\ goroutines = <<>>
    /\ thread = "ui"

NextLoader ==
    \/ LoadFileChunked
    \/ ClickLoadMore
    \/ SelectGroupingChunked
    \/ SelectEncodingChunked
    \/ OnScrolledChunked
    \/ DismissErrorChunked
    \/ GoBegin
    \/ GoRead
    \/ GoApply

SpecLoader == InitLoader /\ [][NextLoader]_vars

----------------------------------------------------------------------------
\* C15: a loadFileFromPath that fails (open, stat or read) reports the error
\* and leaves fileData, fileName, both displays and the status text exactly
\* as they were before the call.  Stated of the progressive loader, whose
\* loadFileFromPath resets fileName and fileData before the first read.
C15_FailedLoadKeepsPriorState ==
    [][(LoadFileChunked /\ errorDialog' # "none")
          => /\ fileData' = fileData
             /\ fileName' = fileName
             /\ hexDisplay' = hexDisplay
             /\ charDisplay' = charDisplay
             /\ statusLabel' = statusLabel]_vars

----------------------------------------------------------------------------
\* the character lines of the window decoded as ISO Latin-1
Latin1Window ==
    JoinLines([n \in currentTopLine..(WindowEnd - 1) |->
                   CharLineOf(fileData, "ISO Latin-1", n * bytesPerLine).text],
              currentTopLine, WindowEnd)

\* C16: in every reachable state, after any sequence of loads and of
\* grouping and encoding selections, selection values that are not offered
\* included, bytesPerLine is 16 and bytesPerGroup is one of 1, 2, 4, 8, 16;
\* with an encoding value other than the four offered names the character
\* display is the ISO Latin-1 decoding of the window.
C16_SettingsStayValid ==
    /\ bytesPerLine = 16
    /\ bytesPerGroup \in Groups
    /\ (encoding \notin Encodings /\ Len(fileData) > 0) => charDisplay = Latin1Window

\* the file of several lines is shown under an encoding name that is not
\* offered, after groupings have been selected
C16_Witness ==
    /\ encoding \notin Encodings
    /\ fileName = PathM
    /\ bytesPerGroup = 16
    /\ currentTopLine = 0
    /\ DisplayLines(charDisplay) = MidLines
    /\ charDisplay # <<>>

----------------------------------------------------------------------------
\* C17: the status bar shows the current file's name and size.  After every
\* successful loadFileFromPath, of an empty file and of a file that replaces
\* an earlier one too, the status text is "File: <name> | Size: <n> bytes"
\* with the name of the file just loaded and its size in bytes, and it reads
\* "Ready" only while no file has been loaded.  Stated of the progressive
\* loader, where updateStatus runs only when a chunk with bytes has arrived.
C17_StatusShowsLoadedFile ==
    [][\A filePath \in LoaderPaths \ {PathX} :
          UiStep(loadFileFromPathChunked(HState, filePath, "ok"))
              => /\ statusLabel' = StatusText(filePath, LoaderDisk(filePath))
                 /\ statusLabel' # Ready]_vars

----------------------------------------------------------------------------
\* what the call o with the argument a returns when it is the first call
\* made on the buffer and the settings of this state
AsFirstCall(o, a) ==
    CASE o = "generateHexLine"  -> Returned(HexLineOf(fileData, bytesPerGroup, a))
      [] o = "generateCharLine" -> CharLineOf(fileData, encoding, a)
      [] o = "bytesToChars"     ->
             Returned(BytesToCharsAs(encoding, SliceOf(fileData, a, LineEndOf(fileData, a))))
      [] o = "generateHexDisplay" -> Returned(generateHexDisplay)
      [] OTHER                  -> Returned(generateCharDisplay)

----------------------------------------------------------------------------
\* C19: GUI-thread affinity.  Every step that sets the text of a display or
\* of the status label, that shows, hides or relabels the Load More button
\* or the progress label, or that changes fileData, is a step of the UI
\* thread, never of a goroutine running beside the UI handlers.
C19_UpdatesOnUiThreadOnly ==
    [][(\/ fileData' # fileData
        \/ hexDisplay' # hexDisplay
        \/ charDisplay' # charDisplay
        \/ statusLabel' # statusLabel
        \/ loadMoreBtn' # loadMoreBtn
        \/ progressLabel' # progressLabel) => thread' = "ui"]_vars

----------------------------------------------------------------------------
\* C20: the per-line cache is invalidated wholesale on any change of the
\* line settings.  In the state right after onByteGroupChanged or
\* onEncodingChanged has changed the grouping or the encoding, whatever
\* file, empty or not, is loaded, cachedHexLines and cachedCharLines hold no
\* entry from before the change: every entry they hold is a line of the
\* buffer computed under the grouping and encoding just selected.
C20_SelectionInvalidatesCaches ==
    [][(bytesPerGroup' # bytesPerGroup \/ encoding' # encoding)
          => /\ \A n \in DOMAIN cachedHexLines' :
                   cachedHexLines'[n]
                       = HexLineOf(fileData', bytesPerGroup', n * bytesPerLine)
             /\ \A n \in DOMAIN cachedCharLines' :
                   cachedCharLines'[n]
                       = CharLineOf(fileData', encoding', n * bytesPerLine).text]_vars

----------------------------------------------------------------------------
(***************************************************************************)
(* The scroll callbacks of synchronizeScrolling (src/hexdump.go:193-227),  *)
(* step by step.  In SpecApp a callback is one step; here it is followed   *)
(* through its statements, because the toolkit can call the OnScrolled of  *)
(* the other container from inside Refresh(), when it brings the offset    *)
(* the callback has just assigned back into the range of that container.   *)
(***************************************************************************)

Panes == {"hex", "char"}

OtherPane(pane) == IF pane = "hex" THEN "char" ELSE "hex"

\* if syncing { return }
M_Suppressed(flag) == FALSE

Suppressed(flag) == flag

\* the state every statement of a callback leaves alone
syncFrame == <<settings, fileName, statusLabel, errorDialog, totalLines,
               visibleLines, op, arg, ret, loader>>

\* the virtual-scrolling state updateVirtualScroll works on
window == <<lineHeight, currentTopLine, hexDisplay, charDisplay,
            cachedHexLines, cachedCharLines>>

\* the user scrolls a container: the toolkit sets its offset and calls its
\* OnScrolled with the position
UserScrolls ==
    /\ errorDialog = "none"
    /\ callbacks = <<>>
    /\ \E pane \in Panes : \E position \in ScrollYs :
         /\ callbacks' = <<[pane |-> pane, position |-> position, pc |-> "enter"]>>
         /\ hexOffset' = IF pane = "hex" THEN position ELSE hexOffset
         /\ charOffset' = IF pane = "char" THEN position ELSE charOffset
    /\ UNCHANGED <<syncFrame, window, syncing>>

\* the head of a callback, src/hexdump.go:202-206 and 216-220: return when
\* the flag is up; raise it and hand the position to the other container
CallbackEnters ==
    /\ callbacks # <<>>
    /\ Head(callbacks).pc = "enter"
    /\ IF Suppressed(syncing)
       THEN /\ callbacks' = Tail(callbacks)
            /\ UNCHANGED <<syncing, hexOffset, charOffset>>
       ELSE /\ syncing' = TRUE
            /\ hexOffset' = IF Head(callbacks).pane = "char"
                            THEN Head(callbacks).position ELSE hexOffset
            /\ charOffset' = IF Head(callbacks).pane = "hex"
                             THEN Head(callbacks).position ELSE charOffset
            /\ callbacks' = <<[Head(callbacks) EXCEPT !.pc = "refresh"]>>
                                \o Tail(callbacks)
    /\ UNCHANGED <<syncFrame, window>>

\* charScroll.Refresh() / hexScroll.Refresh(), src/hexdump.go:207, 221: the
\* container is drawn; when the offset is beyond its content the toolkit
\* brings it back to an offset it can show and calls the OnScrolled of that
\* container with it
OtherRefreshes ==
    /\ callbacks # <<>>
    /\ Head(callbacks).pc = "refresh"
    /\ LET here == [Head(callbacks) EXCEPT !.pc = "update"]
           other == OtherPane(Head(callbacks).pane)
       IN \/ /\ callbacks' = <<here>> \o Tail(callbacks)
             /\ UNCHANGED <<hexOffset, charOffset>>
          \/ \E shown \in ScrollYs :
                /\ shown < Head(callbacks).position
                /\ hexOffset' = IF other = "hex" THEN shown ELSE hexOffset
                /\ charOffset' = IF other = "char" THEN shown ELSE charOffset
                /\ callbacks' = <<[pane |-> other, position |-> shown, pc |-> "enter"],
                                  here>> \o Tail(callbacks)
    /\ UNCHANGED <<syncFrame, window, syncing>>

\* the end of a callback, src/hexdump.go:209-211 and 223-225:
\* h.updateVirtualScroll(position.Y), then the flag is lowered
CallbackLeaves ==
    /\ callbacks # <<>>
    /\ Head(callbacks).pc = "update"
    /\ updateVirtualScroll(Head(callbacks).position)
    /\ syncing' = FALSE
    /\ callbacks' = Tail(callbacks)
    /\ UNCHANGED <<syncFrame, hexOffset, charOffset>>

\* a file is opened between two scroll events
LoadBetweenScrolls ==
    /\ callbacks = <<>>
    /\ LoadFile

NextSync ==
    \/ UserScrolls
    \/ CallbackEnters
    \/ OtherRefreshes
    \/ CallbackLeaves
    \/ LoadBetweenScrolls
    \/ DismissError

SpecSync == InitApp /\ [][NextSync]_vars

\* C21: the flag syncing prevents feedback loops and is lowered on every
\* exit path.  A callback that is called while syncing is up returns at
\* once and changes no offset and no other state; whenever the outermost
\* callback has returned, syncing is down; and the outermost callback of a
\* user scroll on either container always hands its position to the other
\* container.
C21_SyncingGuardsAndIsCleared ==
    [][/\ (callbacks # <<>> /\ Head(callbacks).pc = "enter" /\ syncing)
            => /\ callbacks' = Tail(callbacks)
               /\ UNCHANGED <<syncFrame, window, syncing, hexOffset, charOffset>>
       /\ callbacks' = <<>> => ~syncing'
       /\ (Len(callbacks) = 1 /\ Head(callbacks).pc = "enter")
            => /\ ~syncing
               /\ Head(callbacks).pane = "hex"
                     => charOffset' = Head(callbacks).position
               /\ Head(callbacks).pane = "char"
                     => hexOffset' = Head(callbacks).position]_vars

\* the callback of the character container was called from inside the
\* Refresh() of the callback of the hex container, with the flag up, after
\* an earlier scroll had moved the window of a loaded file
C21_Witness ==
    /\ Len(callbacks) = 2
    /\ Head(callbacks).pane = "char"
    /\ Head(callbacks).pc = "enter"
    /\ syncing
    /\ currentTopLine > 0
    /\ charOffset < hexOffset

----------------------------------------------------------------------------
\* the number of lines in the window currentTopLine .. WindowEnd - 1
WindowLines == IF WindowEnd > currentTopLine THEN WindowEnd - currentTopLine ELSE 0

\* C22: the hex view and the character view are synchronized line for line.
\* After any sequence of load, scroll and setting operations both display
\* texts hold the same number of lines, one for each of the line numbers
\* currentTopLine .. min(currentTopLine + visibleLines, totalLines) - 1, at
\* most 30, and both caches have the same keys.
C22_ViewsInStep ==
    /\ DisplayLines(hexDisplay) = DisplayLines(charDisplay)
    /\ DisplayLines(hexDisplay) = WindowLines
    /\ WindowLines <= 30
    /\ DOMAIN cachedHexLines = DOMAIN cachedCharLines

\* the part of C22 that does not name totalLines: the two views against
\* each other, and against the window while the buffer holds data
ViewsInStepWithData ==
    /\ DisplayLines(hexDisplay) = DisplayLines(charDisplay)
    /\ DOMAIN cachedHexLines = DOMAIN cachedCharLines
    /\ DisplayLines(hexDisplay) <= 30
    /\ Len(fileData) > 0 => DisplayLines(hexDisplay) = WindowLines

----------------------------------------------------------------------------
\* C23: whenever a file with data is loaded, the window of virtual scrolling
\* starts inside the file: 0 <= currentTopLine < totalLines, and both
\* displays show at least one line, also right after a load that replaces
\* a longer file that had been scrolled down.
C23_WindowStartsInsideFile ==
    Len(fileData) > 0 =>
        /\ 0 <= currentTopLine
        /\ currentTopLine < totalLines
        /\ DisplayLines(hexDisplay) >= 1
        /\ DisplayLines(charDisplay) >= 1

----------------------------------------------------------------------------
\* C24: after every scroll event on a buffer that holds data, the line the
\* scroll position designates, floor(scrollY / lineHeight) clamped to
\* 0 .. totalLines - 1, lies inside the displayed window currentTopLine ..
\* currentTopLine + visibleLines - 1; scrolling back to scrollY = 0 leaves
\* line 0 displayed.
C24_ScrolledLineIsDisplayed ==
    [][\A position \in ScrollYs :
          (Len(fileData) > 0 /\ OnScrolled(position))
              => /\ currentTopLine' <= NewTopLine(position, lineHeight')
                 /\ NewTopLine(position, lineHeight') < currentTopLine' + visibleLines
                 /\ position = 0 => currentTopLine' = 0]_vars

----------------------------------------------------------------------------
\* C25: totalLines matches the loaded buffer.  In every state reached when
\* loadFileFromPath, onByteGroupChanged or onEncodingChanged has returned,
\* totalLines = ceil(len(fileData) / 16), and it is 0 after an empty file
\* has been loaded over a file with data.
C25_TotalLinesMatchBuffer ==
    [][(LoadFile \/ SelectGrouping \/ SelectEncoding)
          => totalLines' = GoDiv(Len(fileData') + 15, 16)]_vars

----------------------------------------------------------------------------
\* ceil(len(fileData) / 16)
LinesOfBuffer == GoDiv(Len(fileData) + 15, 16)

\* the bytes the hex digits of a text spell, two digits a byte, spaces and
\* line ends left out
RenderedBytes(text) ==
    LET digits == SelectSeq(text, LAMBDA c : c # 32 /\ c # 10)
    IN [i \in 1..(Len(digits) \div 2) |->
           HexVal(digits[2 * i - 1]) * 16 + HexVal(digits[2 * i])]

\* the bytes rendered on the lines 1..k of a hex dump, in order; the first
\* ten characters of a line are its address column
RECURSIVE RenderedUpTo(_, _)
RenderedUpTo(text, k) ==
    IF k = 0 THEN <<>>
    ELSE RenderedUpTo(text, k - 1)
         \o RenderedBytes(SubSeq(DisplayLine(text, k), 11, Len(DisplayLine(text, k))))

\* C26: the full dump covers the buffer exactly once.  generateHexDisplay
\* and generateCharDisplay produce exactly ceil(len(fileData) / 16) lines,
\* as many as listLength gives the list view rows; the hex lines carry the
\* addresses 0, 16, 32, ...; and the bytes rendered on the hex lines, put
\* together in order, are fileData: none left out, repeated or moved.
C26_FullDumpCoversBuffer ==
    /\ op = "generateHexDisplay" =>
          /\ DisplayLines(ret.text) = LinesOfBuffer
          /\ listLength = LinesOfBuffer
          /\ \A k \in 1..DisplayLines(ret.text) :
                HexNumber(DisplayLine(ret.text, k), 1, 8) = 16 * (k - 1)
          /\ RenderedUpTo(ret.text, DisplayLines(ret.text)) = fileData
    /\ op = "generateCharDisplay" => DisplayLines(ret.text) = LinesOfBuffer

\* the dump of a buffer of two lines, the second one partial, in groups of
\* several bytes
C26_Witness ==
    /\ op = "generateHexDisplay"
    /\ Len(fileData) > 16
    /\ Len(fileData) % 16 # 0
    /\ bytesPerGroup = 4
    /\ DisplayLines(ret.text) = 2

----------------------------------------------------------------------------
\* a is the beginning of b
IsPrefix(a, b) == Len(a) <= Len(b) /\ a = SubSeq(b, 1, Len(a))

\* no call of loadNextChunk is under way: the handlers of the UI thread are
\* single steps, a goroutine is under way from its start to its return
NoLoadUnderWay == goroutines = <<>>

\* C27: in the progressive loader, under every interleaving of Load More
\* clicks, goroutines started by scrolling and file opens, loadedBytes =
\* len(fileData) and 0 <= loadedBytes <= fileSize whenever no loadNextChunk
\* is under way, and fileData is always a beginning of the content of the
\* file that is open: no chunk lost, doubled or out of order, no bytes of a
\* file opened before.
C27_LoadedDataIsPrefixOfFile ==
    /\ NoLoadUnderWay =>
          /\ loadedBytes = Len(fileData)
          /\ 0 <= loadedBytes
          /\ loadedBytes <= fileSize
    /\ file # Nil => IsPrefix(fileData, LoaderDisk(file.path))

----------------------------------------------------------------------------
\* a goroutine is between isLoading = true and isLoading = false
InCritical(g) == g.pc \in {"read", "apply"}

\* a step of the UI thread in which a call of loadNextChunk raises
\* isLoading, reads and lowers it again: a Load More click that passes the
\* tests at the head of loadNextChunk, or the first chunk of a file that
\* has been opened and holds bytes
UiLoadsChunk ==
    \/ ClickLoadMore /\ file # Nil /\ ~isLoading /\ loadedBytes < fileSize
    \/ \E filePath \in {PathS, PathL} : \E outcome \in {"read error", "ok"} :
          /\ UiStep(loadFileFromPathChunked(HState, filePath, outcome))
          /\ UNCHANGED goroutines

\* C28: the flag isLoading gives mutual exclusion of chunk loads.  Under
\* every interleaving of UI calls and goroutines started by checkAutoLoad,
\* at most one call of loadNextChunk is between isLoading = true and
\* isLoading = false at a time, and isLoading is false whenever no call is
\* under way, after a read error too.
C28_OneLoadAtATime ==
    [][/\ UiLoadsChunk => \A i \in DOMAIN goroutines : ~InCritical(goroutines[i])
       /\ \A i, j \in DOMAIN goroutines' :
             (InCritical(goroutines'[i]) /\ InCritical(goroutines'[j])) => i = j
       /\ goroutines' = <<>> => ~isLoading']_vars

----------------------------------------------------------------------------
(***************************************************************************)
(* The progressive loader while one file is being loaded: the file of      *)
(* three chunks is opened once, every read succeeds, and the user goes on  *)
(* clicking, selecting, scrolling and trying to open a file that cannot be *)
(* opened.  Load More clicks keep coming while the button takes them, the  *)
(* scheduler runs every goroutine that can run, and the user closes every  *)
(* error dialog.                                                           *)
(***************************************************************************)

\* the first and only successful open
OpenFile ==
    /\ fileName = <<>>
    /\ UiStep(loadFileFromPathChunked(HState, PathL, "ok"))
    /\ UNCHANGED goroutines

\* an open of another file that fails at os.Open
FailedOpen ==
    /\ UiStep(loadFileFromPathChunked(HState, PathX, "open error"))
    /\ UNCHANGED goroutines

\* a Load More click whose read succeeds
ClickLoadMoreOk == ClickLoadMore /\ errorDialog' = "none"

\* the read of a goroutine, which fails on a nil handle only
GoReadOk == GoRead /\ (file = Nil \/ errorDialog' = errorDialog)

NextLoading ==
    \/ OpenFile
    \/ FailedOpen
    \/ ClickLoadMoreOk
    \/ SelectGroupingChunked
    \/ SelectEncodingChunked
    \/ OnScrolledChunked
    \/ DismissErrorChunked
    \/ GoBegin
    \/ GoReadOk
    \/ GoApply

SpecLoading ==
    /\ InitLoader
    /\ [][NextLoading]_vars
    /\ WF_vars(ClickLoadMoreOk)
    /\ WF_vars(DismissErrorChunked)
    /\ WF_vars(GoBegin)
    /\ WF_vars(GoReadOk)
    /\ WF_vars(GoApply)

\* with no file handle and no goroutine under way nothing loads any more:
\* no step short of a successful open changes fileData or loadedBytes or
\* starts a goroutine
NothingLoadsWithoutHandle ==
    [][(file = Nil /\ goroutines = <<>> /\ file' = Nil)
          => /\ fileData' = fileData
             /\ loadedBytes' = loadedBytes
             /\ goroutines' = <<>>]_vars

\* C29: progressive loading completes.  Once a file has been opened, with
\* loadNextChunk called again and again and every read returning bytes, and
\* whatever the user does besides short of opening another file with
\* success, a state with loadedBytes = fileSize and the Load More button
\* hidden is reached; from then on no call changes fileData or loadedBytes.
\* Stated through what it asks of every state on the way: as long as bytes
\* of the file are missing and no load is under way, the next call of
\* loadNextChunk can load, that is, the file handle is there and the flag
\* is down (by NothingLoadsWithoutHandle a state without the handle is never
\* left); and once the file is complete the button is hidden and fileData
\* and loadedBytes stay.
C29_LoadingCompletes ==
    [][/\ (fileName' # <<>> /\ loadedBytes' < fileSize' /\ goroutines' = <<>>)
             => (file' # Nil /\ ~isLoading')
       /\ (fileName # <<>> /\ loadedBytes = fileSize /\ goroutines = <<>>)
             => /\ ~loadMoreBtn.shown
                /\ fileData' = fileData
                /\ loadedBytes' = loadedBytes]_vars


----------------------------------------------------------------------------
(* The list view, src/unnamed/part_001: a widget.List whose rows are       *)
(* filled by listUpdateItem (287-331).  Its generateHexLine (334-384) is   *)
(* the one of src/hexdump.go followed by strings.TrimRight(s, "\n "), its  *)
(* generateCharLine (400-418) returns the decoded line without a newline,  *)
(* its decoders (434-540) are those of src/hexdump.go.                     *)

\* unicode.IsSpace, the test of strings.TrimSpace
IsSpace(r) ==
    \/ r \in 9..13
    \/ r \in {32, 133, 160, 5760, 8232, 8233, 8239, 8287, 12288}
    \/ r \in 8192..8202

\* strings.TrimRight(s, "\n ")
TrimRight(s) ==
    LET kept == {i \in 1..Len(s) : s[i] \notin {10, 32}}
    IN IF kept = {} THEN <<>>
       ELSE SubSeq(s, 1, CHOOSE i \in kept : \A j \in kept : j <= i)

\* strings.TrimSpace(s)
TrimSpace(s) ==
    LET kept == {i \in 1..Len(s) : ~IsSpace(s[i])}
    IN IF kept = {} THEN <<>>
       ELSE SubSeq(s, CHOOSE i \in kept : \A j \in kept : i <= j,
                      CHOOSE i \in kept : \A j \in kept : j <= i)

\* generateHexLine of the list view
listGenerateHexLine(offset) == TrimRight(HexLineOf(fileData, bytesPerGroup, offset))

\* generateCharLine of the list view
listGenerateCharLine(offset) == bytesToChars(Slice(offset, LineEnd(offset)))

\* hexAndAddrColumns := 10 + 32 + (16/h.bytesPerGroup) - 1
hexAndAddrColumns == 10 + 32 + GoDiv(16, bytesPerGroup) - 1

\* mutant of paddingLength: one column short
M_paddingLength(text) == hexAndAddrColumns - Len(text) - 1

\* paddingLength := hexAndAddrColumns - hexTextLength
paddingLength(text) == hexAndAddrColumns - Len(text)

\* the template item of listCreateItem: "HEX_PLACEHOLDER", "CHAR_PLACEHOLDER"
listCreateItem ==
    [panicked |-> FALSE,
     text     |-> <<72, 69, 88, 95, 80, 76, 65, 67, 69, 72, 79, 76, 68, 69, 82>>,
     charText |-> <<67, 72, 65, 82, 95, 80, 76, 65, 67, 69, 72, 79, 76, 68, 69, 82>>]

\* the texts of the row after listUpdateItem(id, item): text is hexText.Text,
\* charText is charText.Text
listUpdateItem(id) ==
    LET offset == id * bytesPerLine
    IN IF offset >= Len(fileData)
       THEN [panicked |-> FALSE, text |-> <<>>, charText |-> <<>>]
       ELSE LET hexText == TrimSpace(listGenerateHexLine(offset))
            IN [panicked |-> FALSE,
                text     |-> hexText \o Spaces(paddingLength(hexText)),
                charText |-> TrimSpace(listGenerateCharLine(offset))]

\* the list asks for a row: the rows 0..listLength-1, and the row after the
\* last one, which listUpdateItem answers with empty texts
CallListUpdateItem ==
    \E id \in 0..listLength :
        /\ op' = "listUpdateItem"
        /\ arg' = id
        /\ ret' = listUpdateItem(id)
        /\ UNCHANGED <<settings, fileName, widgets, scrolling, loader, panes>>

NextList == CallListUpdateItem

\* the list view on the buffers and settings of Init
SpecList == Init /\ [][NextList]_vars

\* a row of the file has been filled
RowFilled == op = "listUpdateItem" /\ arg < listLength

\* the decoded characters of the bytes of row id
DecodedRow(id) ==
    BytesToCharsAs(encoding,
                   SliceOf(fileData, id * bytesPerLine, LineEndOf(fileData, id * bytesPerLine)))

\* t is s without a run of whitespace at its start and one at its end, and
\* t neither starts nor ends with whitespace
IsTrimmed(t, s) ==
    /\ \E lead \in 0..Len(s) :
          /\ lead + Len(t) <= Len(s)
          /\ \A i \in 1..Len(t) : t[i] = s[lead + i]
          /\ \A i \in 1..Len(s) : (i <= lead \/ i > lead + Len(t)) => IsSpace(s[i])
    /\ t # <<>> => (~IsSpace(t[1]) /\ ~IsSpace(t[Len(t)]))

\* C30: in the list view, after listUpdateItem for any row of a non-empty
\* file and any grouping g of 1, 2, 4, 8, 16, the hex text of the row has
\* exactly 10 + 32 + (16/g) - 1 characters, the last partial row as the full
\* rows, and the character text of the row is the decoded line without its
\* leading and trailing whitespace.
C30_RowWidthAndTrimmedChars ==
    RowFilled =>
        /\ Len(ret.text) = 10 + 32 + (16 \div bytesPerGroup) - 1
        /\ IsTrimmed(ret.charText, DecodedRow(arg))

\* the last, partial row of a file of two rows has been filled, in a
\* grouping of several groups per row, and its decoded line lost whitespace
C30_Witness ==
    /\ RowFilled
    /\ arg = 1
    /\ Len(fileData) % bytesPerLine # 0
    /\ bytesPerGroup < 16
    /\ Len(ret.charText) > 0
    /\ Len(ret.charText) < Len(DecodedRow(arg))

=============================================================================
